---------------------------- MODULE Spec2Model ----------------------------
(***************************************************************************)
(* Model of the content-control engine of docx-cc (src/docx-cc/src/lib.rs):*)
(* the event scanner / control indexer (DocumentState.consume), the        *)
(* substitution writer (map_content_controls, write_content) and the       *)
(* stripper (remove_content_controls).                                     *)
(*                                                                         *)
(* The bytes of a part are modelled by the sequence of its markup tokens   *)
(* and text runs; the Reader yields an event per token and Eof at the end, *)
(* the Writer appends the bytes of each event it is given, so that texts   *)
(* written one after the other become one text run.  A replacement         *)
(* fragment is modelled by the events the Reader yields for its string.    *)
(* The Reader checks end names, so every End it yields closes the          *)
(* innermost open Start; an unclosed element at end of input is no error.  *)
(***************************************************************************)
EXTENDS Integers, Sequences, FiniteSets, TLC

VARIABLES
    op,              \* the public operation running: "map" or "strip"
    input,           \* ZipData given to the operation: part name -> bytes
    output,          \* ZipData built by the operation: part name -> bytes
    todo,            \* the part names the running for loop has yet to visit
    filename,        \* the part name of the running turn of the for loop
    documents,       \* ParsedDocuments: part name -> DocumentData
    round,           \* 1; 2 when strip runs on the result of a first strip
    data,            \* the events the Reader yields for the part, Eof last
    mappings,        \* flat mapping   tag -> fragment
    repeat_mappings, \* repeat mapping tag -> sequence of (tag -> fragment)
    pc,              \* the loop running: "scan_parts" / "scan", "scanned",
                     \* "map_parts" / "map", "strip_parts" / "strip", "done",
                     \* "panicked" (a fragment is rejected), "parse_error"
                     \* (the part is rejected)
    state,           \* the DocumentState of the running scan
    events,          \* DocumentData.events, the buffered events
    reader,          \* the Reader: the number of events read from data
    i,               \* loop index of map_content_controls (0-based)
    writer           \* the Writer: out = events written; prov, writes = history

vars == <<op, input, output, todo, filename, documents, round, data, mappings,
          repeat_mappings, pc, state, events, reader, i, writer>>

-----------------------------------------------------------------------------
(* Events *)

NoAttr == "<none>"

Ev(t, n, v) == [type |-> t, name |-> n, val |-> v]
St(n) == Ev("Start", n, NoAttr)
En(n) == Ev("End", n, NoAttr)
Em(n) == Ev("Empty", n, NoAttr)
Tag(v) == Ev("Empty", "w:tag", v)
Tx(v) == Ev("Text", "", v)
Eof == Ev("Eof", "", NoAttr)

\* s[a..b] with 0-based, half-open bounds, as a Rust slice &s[a..b]
Slice(s, a, b) == SubSeq(s, a + 1, b)

-----------------------------------------------------------------------------
(* ContentControlType *)

EMPTY_STR == <<Tx("")>>

MISSING_STR == <<Tx("MISSING")>>

parse_string(value) ==
    CASE value = "w:richText" -> "RichText"
      [] value = "w:text" -> "Text"
      [] value = "w:comboBox" -> "ComboBox"
      [] value = "w:dropDownList" -> "DropdownList"
      [] value = "w:date" -> "Date"
      [] value = "w15:repeatingSection" -> "RepeatingSection"
      [] value = "w15:repeatingSectionItem" -> "RepeatingSectionItem"
      [] OTHER -> "None"

-----------------------------------------------------------------------------
(* ContentControlPosition *)

NewPosition ==
    [type |-> "Unsupported", tag |-> "", begin |-> -1, end |-> -1,
     content_begin |-> -1, content_end |-> -1,
     paragraph_params_start |-> -1, paragraph_params_end |-> -1,
     contains_paragraph |-> FALSE,
     run_params_start |-> -1, run_params_end |-> -1]

intersects_header(c, index) ==
    c.begin # -1 /\ index > c.begin /\ c.content_begin = -1 /\ c.end = -1

intersects_content_le(c, index) ==
    index >= c.content_begin /\ index <= c.content_end

intersects_content(c, index) ==
    index >= c.content_begin /\ index < c.content_end

content_opened(c) == c.content_begin # -1

closed(c) == c.end # -1

content_closed(c) == c.content_end # -1

has_paragraph_params(c) ==
    c.paragraph_params_start >= 0 /\ c.paragraph_params_end >= 0

has_run_params(c) == c.run_params_start >= 0 /\ c.run_params_end >= 0

-----------------------------------------------------------------------------
(* DocumentState *)

NewState ==
    [states |-> <<>>, positions |-> <<>>, controls |-> <<>>, is_eof |-> FALSE,
     last_seen_closed |-> "", counter |-> 0]

\* self.states.get(key).unwrap_or(&0)
StatesGet(s, key) == IF key \in DOMAIN s.states THEN s.states[key] ELSE 0

\* HashMap::insert
Insert(m, k, v) == [x \in DOMAIN m \cup {k} |-> IF x = k THEN v ELSE m[x]]

is_in_not_below(s, key) == StatesGet(s, key) >= 0

is_in(s, key) == StatesGet(s, key) > 0

is_at_no_last(s, key) == is_in(s, key)

is_at_any_closed(s, key) == is_in(s, key) \/ s.last_seen_closed # ""

is_at(s, key) == is_in(s, key) \/ key = s.last_seen_closed

FirstOfHits(hits) ==
    IF hits = {} THEN 0 ELSE CHOOSE j \in hits : \A h \in hits : j <= h

\* the last of the indices hits of the controls that pass a test, 0 if none:
\* for ctrl in self.controls.iter_mut().rev() { if test(ctrl) { ...; break } }
LastWhere(hits) ==
    IF hits = {} THEN 0 ELSE CHOOSE j \in hits : \A h \in hits : h <= j

\* controls with one field of control j set (j = 0: no control, no change)
SetField(ctrls, j, f, v) ==
    IF j = 0 THEN ctrls ELSE [ctrls EXCEPT ![j] = [@ EXCEPT ![f] = v]]

\* the index of self.controls.iter_mut().next_back(), 0 if the list is empty
NextBack(ctrls) == Len(ctrls)

PromotedNever(type) == type

\* if let ContentControlType::Unsupported = ctrl.type { ctrl.type = RichText }
Promoted(type) == IF type = "Unsupported" THEN "RichText" ELSE type

ConsumeStart(s, name) ==
    LET s1 == [s EXCEPT !.states = Insert(s.states, name, StatesGet(s, name) + 1),
                        !.positions = Insert(s.positions, name, s.counter)]
        cs == s1.controls
        nb == NextBack(cs)
    IN  CASE name = "w:sdt" ->
               [s1 EXCEPT !.controls =
                   Append(cs, [NewPosition EXCEPT !.begin = s1.counter])]
          [] name = "w:sdtContent" ->
               [s1 EXCEPT !.controls =
                   SetField(cs, LastWhere({c \in 1..Len(cs) : ~content_opened(cs[c])}),
                            "content_begin", s1.counter)]
          [] name = "w:p" ->
               IF is_in(s1, "w:sdtContent")
               THEN [s1 EXCEPT !.controls =
                        SetField(cs, nb, "contains_paragraph", TRUE)]
               ELSE s1
          [] name = "w:rPr" ->
               IF is_in(s1, "w:sdtContent") /\ is_in(s1, "w:r")
                  /\ nb # 0 /\ cs[nb].run_params_start < 0
               THEN [s1 EXCEPT !.controls =
                        SetField(cs, nb, "run_params_start", s1.counter)]
               ELSE s1
          [] name = "w:pPr" ->
               IF is_in(s1, "w:sdtContent") /\ is_in(s1, "w:p")
                  /\ nb # 0 /\ cs[nb].paragraph_params_start < 0
               THEN [s1 EXCEPT !.controls =
                        SetField(cs, nb, "paragraph_params_start", s1.counter)]
               ELSE s1
          [] OTHER -> s1

ConsumeEnd(s, name) ==
    LET current == StatesGet(s, name)
        s1 == [s EXCEPT !.last_seen_closed = name]
        cs == s1.controls
        nb == NextBack(cs)
        j  == LastWhere({c \in 1..Len(cs) : ~closed(cs[c])})
        s2 == CASE name = "w:sdt" ->
                     [s1 EXCEPT !.controls =
                         IF j = 0 THEN cs
                         ELSE SetField(SetField(cs, j, "end", s1.counter), j, "type",
                                       Promoted(cs[j].type))]
                [] name = "w:sdtContent" ->
                     [s1 EXCEPT !.controls =
                         SetField(cs, LastWhere({c \in 1..Len(cs) : ~content_closed(cs[c])}),
                                  "content_end", s1.counter)]
                [] name = "w:rPr" ->
                     IF is_in(s1, "w:sdtContent") /\ is_in(s1, "w:r")
                        /\ nb # 0 /\ cs[nb].run_params_end < 0
                     THEN [s1 EXCEPT !.controls =
                              SetField(cs, nb, "run_params_end", s1.counter + 1)]
                     ELSE s1
                [] name = "w:pPr" ->
                     IF is_in(s1, "w:sdtContent") /\ is_in(s1, "w:p")
                        /\ nb # 0 /\ cs[nb].paragraph_params_end < 0
                     THEN [s1 EXCEPT !.controls =
                              SetField(cs, nb, "paragraph_params_end", s1.counter + 1)]
                     ELSE s1
                [] OTHER -> s1
    IN  [s2 EXCEPT !.states = Insert(s2.states, name, current - 1)]

ConsumeEmptyAnywhere(s, e) ==
    LET cs == s.controls
        t  == parse_string(e.name)
    IN  IF t # "None"
        THEN [s EXCEPT !.controls =
                 SetField(cs, LastWhere({c \in 1..Len(cs) : intersects_header(cs[c], s.counter)}),
                          "type", t)]
        ELSE IF e.name = "w:tag" /\ e.val # NoAttr
        THEN [s EXCEPT !.controls = SetField(cs, NextBack(cs), "tag", e.val)]
        ELSE s

ConsumeEmpty(s, e) ==
    LET cs == s.controls
        t  == parse_string(e.name)
    IN  IF ~is_in(s, "w:sdtPr") THEN s
        ELSE IF t # "None"
        THEN [s EXCEPT !.controls =
                 SetField(cs, LastWhere({c \in 1..Len(cs) : intersects_header(cs[c], s.counter)}),
                          "type", t)]
        ELSE IF e.name = "w:tag" /\ e.val # NoAttr
        THEN [s EXCEPT !.controls = SetField(cs, NextBack(cs), "tag", e.val)]
        ELSE s

consume_same_counter(s, e) ==
    CASE e.type = "Start" -> ConsumeStart(s, e.name)
      [] e.type = "End" -> ConsumeEnd(s, e.name)
      [] e.type = "Empty" -> ConsumeEmpty(s, e)
      [] e.type = "Eof" -> [s EXCEPT !.is_eof = TRUE]
      [] OTHER -> s

consume_counting_tags(s, e) ==
    LET s1 == consume_same_counter(s, e)
    IN  IF e.type = "Text" THEN s1 ELSE [s1 EXCEPT !.counter = @ + 1]

consume(s, e) ==
    LET s0 == IF s.last_seen_closed # "" THEN [s EXCEPT !.last_seen_closed = ""]
              ELSE s
        s1 == CASE e.type = "Start" -> ConsumeStart(s0, e.name)
                [] e.type = "End" -> ConsumeEnd(s0, e.name)
                [] e.type = "Empty" -> ConsumeEmpty(s0, e)
                [] e.type = "Eof" -> [s0 EXCEPT !.is_eof = TRUE]
                [] OTHER -> s0
    IN  [s1 EXCEPT !.counter = s1.counter + 1]

-----------------------------------------------------------------------------
(* The Writer.  out is what has been written; prov and writes are history: *)
(* prov[j] tells which statement wrote out[j] (role: "copy" the loop over  *)
(* doc.events, "item" the loop over the item template, "wrap" a generated  *)
(* wrapper, "params" a cached property event, "repl" the replacement),     *)
(* from which buffered event (src, -1 if none), for which control's        *)
(* replacement (ctl), in which repeating section's expansion (sec) and for *)
(* which of its values (k); writes lists the calls of write_content.       *)

NewWriter == [out |-> <<>>, prov |-> <<>>, writes |-> <<>>]

NoCx == [ctl |-> 0, sec |-> 0, k |-> 0]

Prov(role, src, cx) ==
    [role |-> role, src |-> src, ctl |-> cx.ctl, sec |-> cx.sec, k |-> cx.k]

\* Writer::write_event; an Eof event has no serialisation
write_event(w, ev, p) ==
    IF ev.type = "Eof" THEN w
    ELSE [w EXCEPT !.out = Append(@, ev), !.prov = Append(@, p)]

\* what a writer holds after another one's writes have followed its own
Cat(w, x) ==
    [out |-> w.out \o x.out, prov |-> w.prov \o x.prov,
     writes |-> w.writes \o [n \in 1..Len(x.writes) |->
                   [x.writes[n] EXCEPT !.lo = @ + Len(w.out), !.hi = @ + Len(w.out)]]]

RECURSIVE CatRange(_, _, _)
\* what the turns lo..hi of a loop write, turn[n] being what turn n writes
CatRange(turn, lo, hi) ==
    IF lo > hi THEN NewWriter
    ELSE IF lo = hi THEN turn[lo]
    ELSE LET mid == (lo + hi) \div 2
         IN  Cat(CatRange(turn, lo, mid), CatRange(turn, mid + 1, hi))

\* for ev in evs { writer.write_event(ev.clone()) }; evs[n] is the buffered
\* event of index base + n - 1 (base < 0: evs are not buffered events)
WriteAll(w, evs, role, base, cx) ==
    Cat(w, CatRange([n \in 1..Len(evs) |->
                        write_event(NewWriter, evs[n],
                            Prov(role, IF base < 0 THEN -1 ELSE base + n - 1, cx))],
                    1, Len(evs)))

RECURSIVE RejectedFrom(_, _, _)
\* Reader::read_event over a fragment, from event n on with the elements
\* open: TRUE if it returns Err (an End whose name is not that of the
\* innermost open element)
RejectedFrom(content, n, open) ==
    IF n > Len(content) THEN FALSE
    ELSE CASE content[n].type = "Start" ->
                RejectedFrom(content, n + 1, <<content[n].name>> \o open)
           [] content[n].type = "End" ->
                IF open = <<>> \/ Head(open) # content[n].name THEN TRUE
                ELSE RejectedFrom(content, n + 1, Tail(open))
           [] OTHER -> RejectedFrom(content, n + 1, open)

\* content_reader.read_event().expect("should be a well formatted xml")
\* panics for the fragment
Rejects(content) == RejectedFrom(content, 1, <<>>)

get_tag_types_start_only(content) ==
    {content[n].name : n \in {m \in 1..Len(content) : content[m].type = "Start"}}

\* the names of the elements of the fragment that lie in no other element
get_tag_types_top_level(content) ==
    {content[n].name : n \in {m \in 1..Len(content) :
        /\ content[m].type \in {"Start", "Empty"}
        /\ Cardinality({x \in 1..(m - 1) : content[x].type = "Start"})
              = Cardinality({x \in 1..(m - 1) : content[x].type = "End"})}}

\* the set of names of the Start and Empty events of the fragment
get_tag_types(content) ==
    {content[n].name : n \in {m \in 1..Len(content) :
                                 content[m].type \in {"Start", "Empty"}}}

write_parsed_content(w, content, cx) == WriteAll(w, content, "repl", -1, cx)

WrapParamsSwapped(w, control, tag, evs, cx) ==
    CASE tag = "w:r" /\ has_paragraph_params(control) ->
           WriteAll(w, Slice(evs, control.paragraph_params_start,
                             control.paragraph_params_end),
                    "params", control.paragraph_params_start, cx)
      [] tag = "w:p" /\ has_run_params(control) ->
           WriteAll(w, Slice(evs, control.run_params_start, control.run_params_end),
                    "params", control.run_params_start, cx)
      [] OTHER -> w

\* the match on tag in the closure of write_inner_content: the cached
\* property events written first inside a generated wrapper
WrapParams(w, control, tag, evs, cx) ==
    CASE tag = "w:p" /\ has_paragraph_params(control) ->
           WriteAll(w, Slice(evs, control.paragraph_params_start,
                             control.paragraph_params_end),
                    "params", control.paragraph_params_start, cx)
      [] tag = "w:r" /\ has_run_params(control) ->
           WriteAll(w, Slice(evs, control.run_params_start, control.run_params_end),
                    "params", control.run_params_start, cx)
      [] OTHER -> w

RECURSIVE write_wrap_tags(_, _, _, _, _, _)
write_wrap_tags(w, control, content, tags, evs, cx) ==
    LET content_tags == get_tag_types(content)
    IN  IF tags # <<>>
        THEN LET tag == Head(tags)
             IN  IF tag \in content_tags
                 THEN write_parsed_content(w, content, cx)
                 ELSE LET w1 == write_event(w, St(tag), Prov("wrap", -1, cx))
                          w2 == WrapParams(w1, control, tag, evs, cx)
                          w3 == write_wrap_tags(w2, control, content, Tail(tags), evs, cx)
                      IN  write_event(w3, En(tag), Prov("wrap", -1, cx))
        ELSE write_parsed_content(w, content, cx)

LadderRunOnly(control) == <<"w:r", "w:t">>

LadderByKind(control) ==
    IF control.type = "Text" THEN <<"w:t">>
    ELSE IF control.contains_paragraph THEN <<"w:p", "w:r", "w:t">>
    ELSE <<"w:r", "w:t">>

\* the wrapping ladder write_content passes to write_wrap_tags
Ladder(control) ==
    IF control.contains_paragraph THEN <<"w:p", "w:r", "w:t">> ELSE <<"w:r", "w:t">>

\* cx.ctl is the index of control in the position list
write_content(control, w, content, evs, cx) ==
    LET w1 == write_wrap_tags(w, control, content, Ladder(control), evs, cx)
    IN  [w1 EXCEPT !.writes =
            Append(@, [ctl |-> cx.ctl, sec |-> cx.sec, k |-> cx.k, content |-> content,
                       lo |-> Len(w.out) + 1, hi |-> Len(w1.out)])]

-----------------------------------------------------------------------------
(* map_content_controls *)

\* the first of the indices hits of the elements that pass a test, 0 if none:
\* iter().find(test)
FirstWhere(hits) ==
    IF hits = {} THEN 0 ELSE CHOOSE j \in hits : \A h \in hits : j <= h

get_innermost_control_position(index, ctrls) ==
    LastWhere({c \in 1..Len(ctrls) : intersects_content(ctrls[c], index)})

get_intersecting_control_position(index, ctrls) ==
    FirstWhere({j \in 1..Len(ctrls) : intersects_content(ctrls[j], index)})

ContainedFromBegin(ctrls, control, c) ==
    ctrls[c].begin >= control.begin /\ ctrls[c].end <= control.content_end

\* the filter of get_contained_control, on the index c of a control
Contained(ctrls, control, c) ==
    ctrls[c].begin >= control.content_begin /\ ctrls[c].end <= control.content_end

\* the indices of the controls get_contained_control yields
get_contained_control(ctrls, control) ==
    {c \in 1..Len(ctrls) : Contained(ctrls, control, c)}

get_contained_control_at(ctrls, control, index) ==
    FirstWhere({c \in 1..Len(ctrls) : Contained(ctrls, control, c)
                                     /\ intersects_content(ctrls[c], index)})

\* impl fmt::Display for ContentControlType
Display(type) ==
    CASE type = "RichText" -> "w:richText"
      [] type = "Text" -> "w:text"
      [] type = "ComboBox" -> "w:comboBox"
      [] type = "DropdownList" -> "w:dropDownList"
      [] type = "Date" -> "w:date"
      [] type = "RepeatingSection" -> "w15:repeatingSection"
      [] type = "RepeatingSectionItem" -> "w15:repeatingSectionItem"
      [] OTHER -> "unsupported"

\* the elements of a set of indices, in list order
InOrder(S) ==
    [n \in 1..Cardinality(S) |->
        CHOOSE x \in S : Cardinality({y \in S : y < x}) = n - 1]

RECURSIVE Flatten(_)
Flatten(seqs) == IF seqs = <<>> THEN <<>> ELSE Head(seqs) \o Flatten(Tail(seqs))

\* the calls of entry.add_child for the control of index c
ContainedTags(ctrls, c) ==
    LET q == InOrder(get_contained_control(ctrls, ctrls[c]))
    IN  [n \in 1..Len(q) |-> ctrls[q[n]].tag]

\* get_content_controls of py-docx-cc for the positions of one part: for
\* every tag, the kinds and the child tags of the controls with that tag
py_get_content_controls(ctrls) ==
    [t \in {ctrls[c].tag : c \in 1..Len(ctrls)} |->
        LET own == InOrder({c \in 1..Len(ctrls) : ctrls[c].tag = t})
        IN  [types |-> [n \in 1..Len(own) |-> Display(ctrls[own[n]].type)],
             children_tags |->
                 Flatten([n \in 1..Len(own) |-> ContainedTags(ctrls, own[n])])]]

MapGetEmpty(m, key, default) == IF key \in DOMAIN m THEN m[key] ELSE <<>>

\* HashMap::get(key).unwrap_or(default)
MapGet(m, key, default) == IF key \in DOMAIN m THEN m[key] ELSE default

\* .find(|c| c.type == RepeatingSectionItem) over get_contained_control
SectionItem(ctrls, control) ==
    FirstWhere({c \in 1..Len(ctrls) : Contained(ctrls, control, c)
                                     /\ ctrls[c].type = "RepeatingSectionItem"})

ItemEventFlat(w, ctrls, evs, item, i_item, new_value, cx) ==
    LET ev_item == evs[i_item + 1]
        ctrl_item == get_contained_control_at(ctrls, ctrls[item], i_item)
    IN  IF ctrl_item # 0
        THEN IF ctrls[ctrl_item].content_begin = i_item
             THEN write_content(ctrls[ctrl_item],
                      write_event(w, ev_item, Prov("item", i_item, cx)),
                      MapGet(mappings, ctrls[ctrl_item].tag, MISSING_STR),
                      evs, [cx EXCEPT !.ctl = ctrl_item])
             ELSE w
        ELSE write_event(w, ev_item, Prov("item", i_item, cx))

ItemEventSkipSection(w, ctrls, evs, item, i_item, new_value, cx) ==
    LET ev_item == evs[i_item + 1]
        ctrl_item == get_contained_control_at(ctrls, ctrls[item], i_item)
    IN  IF ctrl_item # 0
        THEN IF ctrls[ctrl_item].content_begin = i_item
             THEN IF ctrls[ctrl_item].type = "RepeatingSection"
                  THEN write_event(w, ev_item, Prov("item", i_item, cx))
                  ELSE write_content(ctrls[ctrl_item],
                           write_event(w, ev_item, Prov("item", i_item, cx)),
                           MapGet(new_value, ctrls[ctrl_item].tag, MISSING_STR),
                           evs, [cx EXCEPT !.ctl = ctrl_item])
             ELSE w
        ELSE write_event(w, ev_item, Prov("item", i_item, cx))

\* one turn of the loop for i_item in section_item.begin..section_item.end + 1
ItemEvent(w, ctrls, evs, item, i_item, new_value, cx) ==
    LET ev_item == evs[i_item + 1]
        ctrl_item == get_contained_control_at(ctrls, ctrls[item], i_item)
    IN  IF ctrl_item # 0
        THEN IF ctrls[ctrl_item].content_begin = i_item
             THEN write_content(ctrls[ctrl_item],
                      write_event(w, ev_item, Prov("item", i_item, cx)),
                      MapGet(new_value, ctrls[ctrl_item].tag, MISSING_STR),
                      evs, [cx EXCEPT !.ctl = ctrl_item])
             ELSE w
        ELSE write_event(w, ev_item, Prov("item", i_item, cx))

\* one turn of the loop for new_value in new_values.iter(), for the k-th value
RepeatValue(w, ctrls, evs, ctl, new_value, k) ==
    LET item == SectionItem(ctrls, ctrls[ctl])
    IN  IF item # 0
        THEN Cat(w, CatRange([n \in ctrls[item].begin..ctrls[item].end |->
                                 ItemEvent(NewWriter, ctrls, evs, item, n,
                                     new_value, [ctl |-> 0, sec |-> ctl, k |-> k])],
                             ctrls[item].begin, ctrls[item].end))
        ELSE w

\* the arm ContentControlType::RepeatingSection of the match on control.type
RepeatLoop(w, ctrls, evs, ctl, new_values) ==
    Cat(w, CatRange([k \in 1..Len(new_values) |->
                        RepeatValue(NewWriter, ctrls, evs, ctl, new_values[k], k)],
                    1, Len(new_values)))

MapEventPayloadFirst(w, ctrls, evs, idx, flat, repeat) ==
    LET event == evs[idx + 1]
        ctl == get_intersecting_control_position(idx, ctrls)
    IN  IF ctl # 0
        THEN IF ctrls[ctl].content_begin = idx
             THEN LET w1 == IF ctrls[ctl].type = "RepeatingSection"
                            THEN RepeatLoop(w, ctrls, evs, ctl,
                                            MapGet(repeat, ctrls[ctl].tag, <<>>))
                            ELSE write_content(ctrls[ctl], w,
                                     MapGet(flat, ctrls[ctl].tag, MISSING_STR),
                                     evs, [NoCx EXCEPT !.ctl = ctl])
                  IN  write_event(w1, event, Prov("copy", idx, NoCx))
             ELSE w
        ELSE write_event(w, event, Prov("copy", idx, NoCx))

\* the body of the loop over doc.events, for the event of index idx
MapEvent(w, ctrls, evs, idx, flat, repeat) ==
    LET event == evs[idx + 1]
        ctl == get_intersecting_control_position(idx, ctrls)
    IN  IF ctl # 0
        THEN IF ctrls[ctl].content_begin = idx
             THEN LET w1 == write_event(w, event, Prov("copy", idx, NoCx))
                  IN  IF ctrls[ctl].type = "RepeatingSection"
                      THEN RepeatLoop(w1, ctrls, evs, ctl,
                                      MapGet(repeat, ctrls[ctl].tag, <<>>))
                      ELSE write_content(ctrls[ctl], w1,
                               MapGet(flat, ctrls[ctl].tag, MISSING_STR),
                               evs, [NoCx EXCEPT !.ctl = ctl])
             ELSE w
        ELSE write_event(w, event, Prov("copy", idx, NoCx))

-----------------------------------------------------------------------------
(* remove_content_controls: what is done with one event after consuming it *)

RemoveEventOutermost(w, s, e, idx) ==
    LET framing == /\ e.type \in {"Start", "End"}
                   /\ \/ e.name = "w:sdtContent" /\ StatesGet(s, "w:sdt") <= 1
                      \/ e.name = "w:sdt" /\ e.type = "Start" /\ StatesGet(s, "w:sdt") = 1
                      \/ e.name = "w:sdt" /\ e.type = "End" /\ StatesGet(s, "w:sdt") = 0
    IN  IF ~framing /\ ~is_at(s, "w:sdtPr")
        THEN write_event(w, e, Prov("copy", idx, NoCx))
        ELSE w

RemoveEvent(w, s, e, idx) ==
    IF e.type \in {"Start", "End"}
    THEN IF e.name # "w:sdtContent" /\ e.name # "w:sdt" /\ ~is_at(s, "w:sdtPr")
         THEN write_event(w, e, Prov("copy", idx, NoCx))
         ELSE w
    ELSE IF ~is_at(s, "w:sdtPr")
         THEN write_event(w, e, Prov("copy", idx, NoCx))
         ELSE w

-----------------------------------------------------------------------------
(* The parts and mappings the operations are run on *)

\* the longest repeat sequence of a repeat mapping
MaxRepeat == 2

\* the largest number of controls following the first at the top level
MaxTail == 1

Hdr(kind, tag) ==
    <<St("w:sdtPr")>> \o (IF kind = "" THEN <<>> ELSE <<Em(kind)>>)
        \o (IF tag = NoAttr THEN <<>> ELSE <<Tag(tag)>>) \o <<En("w:sdtPr")>>

EndPr == <<St("w:sdtEndPr"), Em("w:b"), En("w:sdtEndPr")>>

Sdt(hdr, body) ==
    <<St("w:sdt")>> \o hdr \o <<St("w:sdtContent")>> \o body
        \o <<En("w:sdtContent"), En("w:sdt")>>

RunPr(mark) == <<St("w:rPr"), Em(mark), En("w:rPr")>>
Run(rpr, text) == <<St("w:r")>> \o rpr \o <<St("w:t"), Tx(text), En("w:t"), En("w:r")>>
Para(ppr, inner) == <<St("w:p")>> \o ppr \o inner \o <<En("w:p")>>
ParPr == <<St("w:pPr"), Em("w:jc"), En("w:pPr")>>

BodyText == <<Tx("old")>>
BodyRun == Run(RunPr("w:b"), "old")
BodyRunPlain == Run(<<>>, "old")
BodyTwoRuns == Run(RunPr("w:b"), "old") \o Run(RunPr("w:i"), "old2")
BodyPara == Para(ParPr, Run(RunPr("w:b"), "old"))
BodyParaPlain == Para(<<>>, Run(<<>>, "old"))

Bodies == {<<>>, BodyText, BodyRun, BodyRunPlain, BodyTwoRuns, BodyPara, BodyParaPlain}

Headers ==
    {<<>>, Hdr("", "A"), Hdr("w:text", "B"), Hdr("", "A") \o EndPr,
     <<Em("w:sdtPr")>>, Hdr("w15:repeatingSectionItem", "A"),
     Hdr("w15:repeatingSection", "S")}

SimpleControls ==
    {Sdt(h, b) : h \in Headers, b \in Bodies}
        \cup {<<St("w:sdt"), En("w:sdt")>>,
              <<St("w:sdt")>> \o Hdr("", "A") \o <<Em("w:sdtContent"), En("w:sdt")>>}

NestedControls ==
    {Sdt(Hdr("", "A"), pre \o Sdt(Hdr("", "B"), b) \o post) :
        pre \in {<<>>, <<Tx("pre")>>}, b \in {BodyText, BodyRun},
        post \in {<<>>, BodyRun}}
      \cup {Sdt(Hdr("", "A"), Para(<<>>, Sdt(Hdr("", "B"), BodyRunPlain))),
            Sdt(Hdr("", "A"), Sdt(Hdr("", "B"), BodyText) \o BodyPara)}

Item(body) == Sdt(Hdr("w15:repeatingSectionItem", NoAttr), body)

ItemBodies ==
    {BodyText,
     Sdt(Hdr("", "A"), BodyText),
     Para(<<>>, Sdt(Hdr("", "A"), BodyRun) \o <<Tx("sep")>>
                  \o Sdt(Hdr("w:text", "B"), BodyRunPlain)),
     Sdt(Hdr("", "A"), Sdt(Hdr("", "B"), BodyText)),
     Sdt(Hdr("w15:repeatingSection", "B"), Item(Sdt(Hdr("", "A"), BodyText)))}

Sections ==
    {Sdt(Hdr("w15:repeatingSection", "S"), pp[1] \o Item(b) \o pp[2]) :
        pp \in {<<<<>>, <<>>>>, <<<<Tx("pre")>>, BodyRun>>}, b \in ItemBodies}
      \cup {Sdt(Hdr("w15:repeatingSection", "S"),
                Item(Sdt(Hdr("", "A"), BodyText)) \o Item(<<Tx("second")>>))}

TailControls == {Sdt(Hdr("", "B"), BodyRun), Sdt(Hdr("", "A"), BodyText)}

RECURSIVE Tails(_)
\* the sequences of at most n tail controls, each after a text
Tails(n) ==
    IF n = 0 THEN {<<>>}
    ELSE {<<>>} \cup {t \o <<Tx("mid")>> \o c : t \in Tails(n - 1), c \in TailControls}

Complete ==
    {<<St("w:body")>> \o b \o t \o <<Tx("tail"), En("w:body"), Eof>> :
        b \in SimpleControls \cup NestedControls \cup Sections, t \in Tails(MaxTail)}

\* parts cut short: the Reader reports no error for an element left open
Truncated ==
    LET full == <<St("w:body")>> \o Sdt(Hdr("", "A"), Sdt(Hdr("", "B"), BodyRun))
    IN  {SubSeq(full, 1, n) \o <<Eof>> : n \in 0..Len(full)}

\* a control without w:sdtContent, or with an empty-element w:sdtContent, in
\* the body of another control
Degenerate ==
    {<<St("w:body")>>
        \o Sdt(Hdr("", "A"), <<St("w:sdt")>> \o h \o <<En("w:sdt")>> \o BodyText)
        \o <<Tx("tail"), En("w:body"), Eof>> :
        h \in {<<>>, Hdr("w:date", "B"), <<Em("w:sdtContent")>>}}

\* a part with kind and tag elements out of place: a w:text with start and end
\* tags in the w:sdtPr, a w:sdtPr block in a body, and a w:date and a w:tag
\* after the control
Misplaced ==
    {<<St("w:body")>>
        \o Sdt(<<St("w:sdtPr"), St("w:text"), En("w:text"), Tag("A"), En("w:sdtPr")>>,
               <<St("w:sdtPr"), Tag("X"), Em("w:date"), En("w:sdtPr")>> \o BodyText)
        \o <<Em("w:date"), Tag("Y"), Tx("tail"), En("w:body"), Eof>>}

\* a part with an end tag that closes nothing
Unbalanced ==
    {<<St("w:body")>> \o Sdt(Hdr("", "A"), BodyRun)
        \o <<En("w:p"), Tx("tail"), En("w:body"), Eof>>}

\* a part with two controls that each hold a paragraph
TwoParagraphs ==
    {<<St("w:body")>> \o Sdt(Hdr("", "A"), BodyPara) \o Sdt(Hdr("", "B"), BodyParaPlain)
        \o <<Tx("tail"), En("w:body"), Eof>>}

Parts ==
    Complete \cup Truncated \cup Degenerate \cup Misplaced \cup Unbalanced
        \cup TwoParagraphs

(* replacement fragments, as the Reader yields them *)
FText == <<Tx("new")>>
FT == <<St("w:t"), Tx("new"), En("w:t")>>
FTCr == FT \o <<Em("w:cr")>> \o FT
FR == <<St("w:r")>> \o FT \o <<En("w:r")>>
FRBreak == <<St("w:r"), Em("w:br"), En("w:r")>>
FP == <<St("w:p")>> \o FR \o <<En("w:p")>>
FPEmpty == <<Em("w:p")>>
FTbl == <<St("w:tbl"), Em("w:tblPr"), En("w:tbl")>>
FTblP == <<St("w:tbl"), St("w:tc")>> \o FP \o <<En("w:tc"), En("w:tbl")>>

\* a fragment the Reader rejects: </w:r> closes <w:t>
FBad == <<St("w:t"), Tx("new"), En("w:r")>>

Fragments == {<<>>, FText, FT, FTCr, FR, FRBreak, FP, FPEmpty, FTbl, FTblP, FBad}

Empty == <<>>

Flats ==
    {Empty} \cup {Insert(Empty, "A", f) : f \in Fragments}
        \cup {Insert(Insert(Empty, "A", FText), "B", FT),
              Insert(Insert(Empty, "A", FPEmpty), "B", FText),
              Insert(Insert(Empty, "B", FR), "S", FText),
              Insert(Insert(Empty, "A", FTblP), "B", FTbl),
              Insert(Empty, "", FText)}

SubMappings ==
    {Insert(Empty, "A", FText), Insert(Insert(Empty, "A", FT), "B", FP)}

RECURSIVE SeqsUpTo(_, _)
SeqsUpTo(S, n) ==
    IF n = 0 THEN {<<>>}
    ELSE {<<>>} \cup {Append(q, x) : q \in SeqsUpTo(S, n - 1), x \in S}

Repeats ==
    {Insert(Empty, "S", q) : q \in SeqsUpTo(SubMappings, MaxRepeat)}
        \cup {Insert(Empty, "B", <<Insert(Empty, "A", FR)>>),
              Insert(Insert(Empty, "S", <<Insert(Insert(Empty, "A", FT), "B", FP),
                                          Insert(Empty, "A", FText)>>),
                     "B", <<Insert(Empty, "A", FR)>>)}

MappingPairs ==
    {<<f, Empty>> : f \in Flats}
      \cup {<<f, r>> : f \in {Empty, Insert(Insert(Empty, "A", FR), "B", FText)},
                       r \in Repeats}

-----------------------------------------------------------------------------
(* Bytes, Reader and Writer *)

RECURSIVE JoinText(_, _, _)
\* the bytes of the texts toks[a..b], one after the other
JoinText(toks, a, b) ==
    IF a = b THEN toks[a].val ELSE toks[a].val \o JoinText(toks, a + 1, b)

\* the tokens with every run of adjacent texts made one text
Merged(toks) ==
    LET IsText(n) == n \in 1..Len(toks) /\ toks[n].type = "Text"
        heads == SelectSeq([n \in 1..Len(toks) |-> n],
                           LAMBDA n : ~(IsText(n) /\ IsText(n - 1)))
        last(n) == CHOOSE m \in n..Len(toks) :
                       /\ \A x \in n..m : IsText(x)
                       /\ ~IsText(m + 1)
    IN  [h \in 1..Len(heads) |->
            IF IsText(heads[h]) THEN Tx(JoinText(toks, heads[h], last(heads[h])))
            ELSE toks[heads[h]]]

\* writer.into_inner().into_inner(): the bytes of the events written; Eof
\* has no bytes
Serialize(evs) == Merged(SelectSeq(evs, LAMBDA e : e.type # "Eof"))

\* Reader::from_str(bytes): the events read_event yields one after the other
Read(bytes) == bytes \o <<Eof>>

has_content_control_by_name(text) ==
    \E n \in 1..Len(text) : text[n].type = "Start" /\ text[n].name = "w:sdt"

\* find_subsequence(text, b"<w:sdt>").is_some(): a w:sdt start tag that has
\* attributes, or is self-closing, does not hold these bytes
has_content_control(text) == \E n \in 1..Len(text) : text[n] = St("w:sdt")

\* parts that do not hold the bytes <w:sdt>
PlainParts ==
    {<<St("w:body"), Tx("tail"), En("w:body")>>,
     <<St("w:body"), Ev("Start", "w:sdt", "w:x")>> \o Hdr("", "A")
         \o <<St("w:sdtContent")>> \o BodyRun
         \o <<En("w:sdtContent"), En("w:sdt"), En("w:body")>>,
     <<Tx("PNG")>>}

DocName == "word/document.xml"

\* the blob stores of one part
Stores == {Insert(Empty, DocName, Serialize(p)) : p \in Parts}
              \cup {Insert(Empty, DocName, p) : p \in PlainParts}

HeaderName == "word/header1.xml"
ImageName == "word/media/image1.png"

\* the blob stores of three parts: a document with controls, a header with
\* or without, and an image
MultiStores ==
    {Insert(Insert(Insert(Empty, DocName, d), HeaderName, h), ImageName, <<Tx("PNG")>>) :
        d \in {<<St("w:body")>> \o Sdt(Hdr("", "A"), BodyRun)
                   \o <<Tx("tail"), En("w:body")>>,
               <<St("w:body")>>
                   \o Sdt(Hdr("", "A"), <<Tx("pre")>> \o Sdt(Hdr("", "B"), BodyText))
                   \o <<En("w:body")>>},
        h \in {<<St("w:hdr")>> \o Sdt(Hdr("w:text", "B"), BodyPara) \o <<En("w:hdr")>>}
                 \cup (PlainParts \ {<<Tx("PNG")>>})}

-----------------------------------------------------------------------------
(* The operations *)

\* the state in which an operation is called on the blob store given
Called(given) ==
    /\ op \in {"map", "strip"}
    /\ input = given
    /\ output = Empty
    /\ todo = DOMAIN input
    /\ filename = ""
    /\ documents = Empty
    /\ round = 1
    /\ data = <<>>
    /\ mappings = Empty
    /\ repeat_mappings = Empty
    /\ pc = IF op = "map" THEN "scan_parts" ELSE "strip_parts"
    /\ state = NewState
    /\ events = <<>>
    /\ reader = 0
    /\ i = 0
    /\ writer = NewWriter

Init == \E given \in Stores : Called(given)

InitStore == \E given \in MultiStores : Called(given)

\* get_content_controls: a turn of the loop over data begins, for a part
\* that has_content_control
ScanPart ==
    /\ pc = "scan_parts"
    /\ \E n \in todo :
          /\ has_content_control(input[n])
          /\ filename' = n
          /\ data' = Read(input[n])
          /\ todo' = todo \ {n}
    /\ state' = NewState
    /\ events' = <<>>
    /\ reader' = 0
    /\ pc' = "scan"
    /\ UNCHANGED <<op, input, output, documents, round, mappings, repeat_mappings,
                   i, writer>>

\* get_content_controls: the turn of the loop over data for a part without
\* content control: nothing is inserted
ScanSkip ==
    /\ pc = "scan_parts"
    /\ \E n \in todo :
          /\ ~has_content_control(input[n])
          /\ filename' = n
          /\ todo' = todo \ {n}
          /\ pc' = IF todo \ {n} = {} THEN "scanned" ELSE "scan_parts"
    /\ UNCHANGED <<op, input, output, documents, round, data, mappings,
                   repeat_mappings, state, events, reader, i, writer>>

\* reader.read_event() returns Err for the next event of the part (an end tag
\* that does not close the innermost open element): the operation panics
ReadFails == Rejects(SubSeq(data, 1, reader + 1))

\* get_content_controls: one turn of the loop while !state.is_eof; after the
\* last one the DocumentData of the part is inserted
GetContentControls ==
    /\ pc = "scan"
    /\ ~state.is_eof
    /\ IF ReadFails
       THEN /\ pc' = "parse_error"
            /\ UNCHANGED <<state, events, documents, reader>>
       ELSE /\ LET e == data[reader + 1]
                   s == consume(state, e)
               IN  /\ state' = s
                   /\ events' = Append(events, e)
                   /\ documents' =
                         IF s.is_eof
                         THEN Insert(documents, filename,
                                     [events |-> Append(events, e),
                                      control_positions |-> s.controls])
                         ELSE documents
                   /\ pc' = IF ~s.is_eof THEN "scan"
                            ELSE IF todo = {} THEN "scanned" ELSE "scan_parts"
            /\ reader' = reader + 1
    /\ UNCHANGED <<op, input, output, todo, filename, round, data, mappings,
                   repeat_mappings, i, writer>>

\* map_content_controls is called with the mappings and the parsed documents
MapBegin ==
    /\ pc = "scanned"
    /\ \E m \in MappingPairs :
          /\ mappings' = m[1]
          /\ repeat_mappings' = m[2]
    /\ todo' = DOMAIN input
    /\ events' = <<>>
    /\ writer' = NewWriter
    /\ i' = 0
    /\ pc' = "map_parts"
    /\ UNCHANGED <<op, input, output, filename, documents, round, data, state, reader>>

\* map_content_controls: a turn of the loop over data begins, for a part
\* that has a DocumentData doc (events and state.controls stand for doc)
MapPart ==
    /\ pc = "map_parts"
    /\ \E n \in todo :
          /\ n \in DOMAIN documents
          /\ filename' = n
          /\ todo' = todo \ {n}
          /\ events' = documents[n].events
          /\ state' = [state EXCEPT !.controls = documents[n].control_positions]
    /\ writer' = NewWriter
    /\ i' = 0
    /\ pc' = "map"
    /\ UNCHANGED <<op, input, output, documents, round, data, mappings,
                   repeat_mappings, reader>>

\* map_content_controls: the turn of the loop over data for a part without
\* DocumentData: mapped_data.insert(filename, data.clone())
MapCopy ==
    /\ pc = "map_parts"
    /\ \E n \in todo :
          /\ n \notin DOMAIN documents
          /\ filename' = n
          /\ todo' = todo \ {n}
          /\ output' = Insert(output, n, input[n])
          /\ pc' = IF todo \ {n} = {} THEN "done" ELSE "map_parts"
    /\ UNCHANGED <<op, input, documents, round, data, mappings, repeat_mappings,
                   state, events, reader, i, writer>>

\* a call of write_content made in the turn that leads from writer w to w1
\* was given a fragment its Reader rejects: get_tag_types panics, the
\* operation is aborted and returns nothing
Panics(w, w1) ==
    \E n \in (Len(w.writes) + 1)..Len(w1.writes) : Rejects(w1.writes[n].content)

\* map_content_controls: one turn of the loop over doc.events; after the last
\* one the bytes written are inserted
MapStep ==
    /\ pc = "map"
    /\ i < Len(events)
    /\ LET w == MapEvent(writer, state.controls, events, i, mappings, repeat_mappings)
       IN  IF Panics(writer, w)
           THEN /\ pc' = "panicked"
                /\ output' = Empty
                /\ UNCHANGED <<writer, i>>
           ELSE /\ writer' = w
                /\ output' = IF i + 1 = Len(events)
                             THEN Insert(output, filename, Serialize(w.out))
                             ELSE output
                /\ i' = i + 1
                /\ pc' = IF i + 1 < Len(events) THEN "map"
                         ELSE IF todo = {} THEN "done" ELSE "map_parts"
    /\ UNCHANGED <<op, input, todo, filename, documents, round, data, mappings,
                   repeat_mappings, state, events, reader>>

\* remove_content_controls: a turn of the loop over data begins, for a part
\* that has_content_control
StripPart ==
    /\ pc = "strip_parts"
    /\ \E n \in todo :
          /\ has_content_control(input[n])
          /\ filename' = n
          /\ data' = Read(input[n])
          /\ todo' = todo \ {n}
    /\ state' = NewState
    /\ writer' = NewWriter
    /\ reader' = 0
    /\ pc' = "strip"
    /\ UNCHANGED <<op, input, output, documents, round, mappings, repeat_mappings,
                   events, i>>

\* remove_content_controls: the turn of the loop over data for a part without
\* content control: cleared_data.insert(filename, doc_string.clone())
StripCopy ==
    /\ pc = "strip_parts"
    /\ \E n \in todo :
          /\ ~has_content_control(input[n])
          /\ filename' = n
          /\ todo' = todo \ {n}
          /\ output' = Insert(output, n, input[n])
          /\ pc' = IF todo \ {n} = {} THEN "done" ELSE "strip_parts"
    /\ UNCHANGED <<op, input, documents, round, data, mappings, repeat_mappings,
                   state, events, reader, i, writer>>

\* remove_content_controls: one turn of the loop while !state.is_eof; after
\* the last one the bytes written are inserted
RemoveContentControls ==
    /\ pc = "strip"
    /\ ~state.is_eof
    /\ IF ReadFails
       THEN /\ pc' = "parse_error"
            /\ output' = Empty
            /\ UNCHANGED <<state, writer, reader>>
       ELSE /\ LET e == data[reader + 1]
                   s == consume(state, e)
                   w == RemoveEvent(writer, s, e, reader)
               IN  /\ state' = s
                   /\ writer' = w
                   /\ output' = IF s.is_eof
                                THEN Insert(output, filename, Serialize(w.out))
                                ELSE output
                   /\ pc' = IF ~s.is_eof THEN "strip"
                            ELSE IF todo = {} THEN "done" ELSE "strip_parts"
            /\ reader' = reader + 1
    /\ UNCHANGED <<op, input, todo, filename, documents, round, data, mappings,
                   repeat_mappings, events, i>>

\* the caller gives the result of remove_content_controls to
\* remove_content_controls again
StripAgain ==
    /\ op = "strip"
    /\ pc = "done"
    /\ round = 1
    /\ input' = output
    /\ output' = Empty
    /\ todo' = DOMAIN output
    /\ round' = 2
    /\ pc' = "strip_parts"
    /\ UNCHANGED <<op, filename, documents, data, mappings, repeat_mappings, state,
                   events, reader, i, writer>>

Next ==
    \/ ScanPart \/ ScanSkip \/ GetContentControls
    \/ MapBegin \/ MapPart \/ MapCopy \/ MapStep
    \/ StripPart \/ StripCopy \/ RemoveContentControls \/ StripAgain

Spec == Init /\ [][Next]_vars

\* the operations on blob stores of several parts
SpecStore == InitStore /\ [][Next]_vars

-----------------------------------------------------------------------------
(* Vocabulary of the properties *)

Positions == state.controls

\* the loop over doc.events of a part is running or has ended; has ended
MapRunning == op = "map" /\ pc \in {"map", "map_parts", "done"} /\ events # <<>>
MapDone == MapRunning /\ i = Len(events)
\* the loop while !state.is_eof of remove_content_controls has ended
StripDone == op = "strip" /\ pc \in {"strip_parts", "done"} /\ state.is_eof

\* event index idx lies in the half-open body range of some position
InSomeBody(idx) ==
    \E c \in 1..Len(Positions) :
        Positions[c].content_begin <= idx /\ idx < Positions[c].content_end

\* the places of out, in order, that satisfy Test
Places(Test(_)) == SelectSeq([j \in 1..Len(writer.out) |-> j], Test)

\* the event indices below n, in order, that satisfy Test
Indices(n, Test(_)) == SelectSeq([j \in 1..n |-> j - 1], Test)

\* position c has a body, and lies in no other position's body
HasBody(c) == Positions[c].content_begin >= 0 /\ Positions[c].content_end >= 0
TopLevel(c) == HasBody(c) /\ ~InSomeBody(Positions[c].begin)

\* the place of out holding the copy of event idx made by the loop over
\* doc.events, 0 if there is none
CopyPlace(idx) ==
    LET js == {j \in 1..Len(writer.out) :
                  writer.prov[j].role = "copy" /\ writer.prov[j].src = idx}
    IN  IF js = {} THEN 0 ELSE CHOOSE j \in js : TRUE

-----------------------------------------------------------------------------
-----------------------------------------------------------------------------
\* the places of out holding a copy of event idx made by either loop
CopiesOf(idx) ==
    {j \in 1..Len(writer.out) :
        writer.prov[j].role \in {"copy", "item"} /\ writer.prov[j].src = idx}

\* event idx was copied to out exactly once, by the loop over doc.events
Retained(idx) ==
    /\ Cardinality(CopiesOf(idx)) = 1
    /\ CopyPlace(idx) # 0
    /\ writer.out[CopyPlace(idx)] = events[idx + 1]

\* the frame of position c: w:sdt Start up to the w:sdtContent Start, and
\* the w:sdtContent End up to the w:sdt End
Frame(c) ==
    (Positions[c].begin .. Positions[c].content_begin)
        \cup (IF Positions[c].end >= 0
              THEN Positions[c].content_end .. Positions[c].end ELSE {})

Interior(c) == (Positions[c].content_begin + 1) .. (Positions[c].content_end - 1)

\* the frame of c is retained, its body is elided, and what stands between
\* the copies of the w:sdtContent Start and End was written in its place
FrameKeptBodyReplaced(c) ==
    LET j0 == CopyPlace(Positions[c].content_begin)
        j1 == CopyPlace(Positions[c].content_end)
    IN  /\ \A idx \in Frame(c) : Retained(idx)
        /\ \A idx \in Frame(c) \ {Positions[c].content_begin} :
              idx + 1 \in Frame(c) => CopyPlace(idx + 1) = CopyPlace(idx) + 1
        /\ \A idx \in Interior(c) : \A j \in CopiesOf(idx) : writer.prov[j].role # "copy"
        /\ j0 < j1
        /\ \A j \in (j0 + 1)..(j1 - 1) :
              /\ writer.prov[j].role \in {"wrap", "params", "repl", "item"}
              /\ IF Positions[c].type = "RepeatingSection"
                 THEN writer.prov[j].sec = c
                 ELSE writer.prov[j].sec = 0 /\ writer.prov[j].ctl = c
        /\ Positions[c].type # "RepeatingSection" =>
              \E n \in 1..Len(writer.writes) :
                  /\ writer.writes[n].ctl = c /\ writer.writes[n].sec = 0
                  /\ writer.writes[n].lo = j0 + 1
                  /\ writer.writes[n].hi = j1 - 1

\* no other position begins inside the header of c
NoControlInHeader(c) ==
    \A d \in 1..Len(Positions) :
        ~(Positions[c].begin < Positions[d].begin
          /\ Positions[d].begin < Positions[c].content_begin)

\* C2 as stated: for every indexed control (with a body) the w:sdt Start, the
\* w:sdtPr block, the w:sdtContent Start and the w:sdt End are retained, the
\* events strictly inside the body are elided and the payload stands right
\* after the w:sdtContent Start.
C2_EveryControlFrameKept ==
    MapDone => \A c \in 1..Len(Positions) : HasBody(c) => FrameKeptBodyReplaced(c)

\* C2 amended: the same, for every control with a body that lies inside no
\* other control's body (and has no control in its header); a control inside
\* another body goes with that body.
C2_TopLevelFrameKept ==
    MapDone =>
        \A c \in 1..Len(Positions) :
            TopLevel(c) /\ NoControlInHeader(c) => FrameKeptBodyReplaced(c)

\* a finished mapping of a top-level control with a w:sdtPr block, a body of
\* several events and a payload, and a control nested in that body
C2_Witness ==
    /\ MapDone
    /\ \E c \in 1..Len(Positions) :
          /\ TopLevel(c) /\ NoControlInHeader(c)
          /\ Positions[c].end >= 0
          /\ events[Positions[c].begin + 2].name = "w:sdtPr"
          /\ Interior(c) # {}
          /\ CopyPlace(Positions[c].content_end)
                > CopyPlace(Positions[c].content_begin) + 1
          /\ \E d \in 1..Len(Positions) :
                HasBody(d) /\ Positions[d].begin \in Interior(c)

-----------------------------------------------------------------------------
(* Vocabulary of the properties of write_content *)

Writes == {writer.writes[n] : n \in 1..Len(writer.writes)}

\* the places of out written by the call w of write_content
Span(w) == w.lo .. w.hi

\* the events the call w wrote, those that have role Test
Written(w, Test(_)) ==
    LET js == SelectSeq([j \in 1..(w.hi - w.lo + 1) |-> w.lo + j - 1],
                        LAMBDA j : Test(writer.prov[j].role))
    IN  [n \in 1..Len(js) |-> writer.out[js[n]]]

\* the names of the elements that occur in fragment R, at any depth
TagNames(R) ==
    {R[n].name : n \in {m \in 1..Len(R) : R[m].type = "Start" \/ R[m].type = "Empty"}}

ThreeTags == <<"w:p", "w:r", "w:t">>

LadderOf(c) == IF Positions[c].contains_paragraph THEN ThreeTags ELSE Tail(ThreeTags)

\* the number of ladder tags before the first one that occurs in R
Peeled(ladder, R) ==
    LET present == {m \in 1..Len(ladder) : ladder[m] \in TagNames(R)}
    IN  IF present = {} THEN Len(ladder)
        ELSE (CHOOSE m \in present : \A x \in present : m <= x) - 1

\* R inside the first n elements of the ladder
Wrapped(ladder, n, R) ==
    [m \in 1..n |-> St(ladder[m])] \o R \o [m \in 1..n |-> En(ladder[n + 1 - m])]

\* the mapping the call w of write_content took its replacement from
MappingOf(w) ==
    IF w.sec = 0 THEN mappings
    ELSE (IF Positions[w.sec].tag \in DOMAIN repeat_mappings
          THEN repeat_mappings[Positions[w.sec].tag] ELSE <<>>)[w.k]

\* the number of wrapper elements the call w opened
WrapCount(w) ==
    Cardinality({j \in Span(w) : writer.prov[j].role = "wrap"
                                /\ writer.out[j].type = "Start"})

MissingCount(R) == Cardinality({m \in 1..3 : ThreeTags[m] \notin TagNames(R)})

-----------------------------------------------------------------------------
\* C3: a missing replacement is no error: when the tag of a control is absent
\* from the mapping consulted (the flat mapping, or the current sub-mapping of
\* a repeating section) the replacement written is the text "MISSING" inside
\* the whole ladder, and the loop goes on: at the end every control that lies
\* in no other body and is no repeating section has had its replacement.
C3_MissingIsSentinel ==
    /\ MapRunning =>
          \A w \in Writes :
              Positions[w.ctl].tag \notin DOMAIN MappingOf(w) =>
                  /\ w.content = <<Tx("MISSING")>>
                  /\ Written(w, LAMBDA r : r # "params")
                        = Wrapped(LadderOf(w.ctl), Len(LadderOf(w.ctl)), <<Tx("MISSING")>>)
    /\ MapDone =>
          \A c \in 1..Len(Positions) :
              TopLevel(c) /\ Positions[c].type # "RepeatingSection" =>
                  \E w \in Writes : w.ctl = c /\ w.sec = 0

\* a finished mapping in which a tag was missing from the flat mapping and
\* another from a sub-mapping that is not empty
C3_Witness ==
    /\ MapDone
    /\ \E w \in Writes :
          /\ w.sec = 0 /\ Positions[w.ctl].tag \notin DOMAIN mappings
          /\ CopyPlace(Positions[w.ctl].end + 1) # 0
    /\ \E w \in Writes :
          /\ w.sec # 0
          /\ Positions[w.ctl].tag \notin DOMAIN MappingOf(w)
          /\ MappingOf(w) # Empty

\* C4: write_content peels the ladder [w:p, w:r, w:t] (contains_paragraph) or
\* [w:r, w:t] from the left: the ladder tags before the first one that occurs
\* in R are opened around R, in ladder order, and R is written verbatim inside
\* (cached property events apart).
C4_LadderPeeledLeftToRight ==
    MapRunning =>
        \A w \in Writes :
            Written(w, LAMBDA r : r # "params")
                = Wrapped(LadderOf(w.ctl), Peeled(LadderOf(w.ctl), w.content), w.content)

\* a run-level control given a fragment with w:t and no w:r: one w:r, no
\* second w:t; and a paragraph-level control given bare text: the whole ladder
C4_Witness ==
    /\ \E w \in Writes :
          /\ ~Positions[w.ctl].contains_paragraph
          /\ w.content = FT
          /\ Written(w, LAMBDA r : r = "wrap") = <<St("w:r"), En("w:r")>>
    /\ \E w \in Writes :
          /\ Positions[w.ctl].contains_paragraph
          /\ w.content = FText
          /\ WrapCount(w) = 3

\* C5 as stated: the replacement is wrapped in exactly as many of w:p, w:r,
\* w:t as are missing from R.
C5_WrappersEqualMissing ==
    MapRunning => \A w \in Writes : WrapCount(w) = MissingCount(w.content)

\* C5 amended: the number of wrappers opened is the number of ladder tags
\* before the first ladder tag that occurs in R; it is at most the number of
\* the three tags missing from R, and equal to it when the control contains a
\* paragraph and every ladder tag after one that occurs in R occurs in R too.
C5_WrappersArePeeledPrefix ==
    MapRunning =>
        \A w \in Writes :
            /\ WrapCount(w) = Peeled(LadderOf(w.ctl), w.content)
            /\ WrapCount(w) <= MissingCount(w.content)
            /\ (/\ Positions[w.ctl].contains_paragraph
                /\ \A a, b \in 1..3 :
                      a < b /\ ThreeTags[a] \in TagNames(w.content)
                          => ThreeTags[b] \in TagNames(w.content))
                  => WrapCount(w) = MissingCount(w.content)

\* bare text for a run-level control: two wrappers, three tags missing; and
\* an empty paragraph for a paragraph-level control: none, two missing
C5_Witness ==
    /\ \E w \in Writes :
          /\ ~Positions[w.ctl].contains_paragraph
          /\ w.content = FText
          /\ WrapCount(w) = 2
    /\ \E w \in Writes :
          /\ Positions[w.ctl].contains_paragraph
          /\ w.content = FPEmpty
          /\ WrapCount(w) = 0

\* the ladder tag is among the wrappers the call w generated
Generated(w, tag) ==
    \E m \in 1..Peeled(LadderOf(w.ctl), w.content) : LadderOf(w.ctl)[m] = tag

\* the range cached for the wrapper tag of control c, <<>> if none is cached
CachedRange(c, tag) ==
    LET a == IF tag = "w:r" THEN Positions[c].run_params_start
             ELSE Positions[c].paragraph_params_start
        b == IF tag = "w:r" THEN Positions[c].run_params_end
             ELSE Positions[c].paragraph_params_end
    IN  IF a >= 0 /\ b >= 0 THEN <<a, b>> ELSE <<>>

\* C6: when write_content generates a w:r (w:p) for a control with a cached
\* run (paragraph) property range, the events of the range follow the wrapper's
\* Start, in order, before anything else; no other property event is written.
C6_CachedPropertiesFirst ==
    MapRunning =>
        \A w \in Writes :
            LET re(tag) == IF Generated(w, tag) THEN CachedRange(w.ctl, tag) ELSE <<>>
                len(tag) == IF re(tag) = <<>> THEN 0 ELSE re(tag)[2] - re(tag)[1]
            IN  /\ \A tag \in {"w:p", "w:r"} :
                      re(tag) # <<>> =>
                          \E j \in Span(w) :
                              /\ writer.prov[j].role = "wrap"
                              /\ writer.out[j] = St(tag)
                              /\ \A m \in 1..len(tag) :
                                    /\ writer.prov[j + m].role = "params"
                                    /\ writer.prov[j + m].src = re(tag)[1] + m - 1
                                    /\ writer.out[j + m] = events[re(tag)[1] + m]
                              /\ writer.prov[j + len(tag) + 1].role # "params"
                /\ Cardinality({j \in Span(w) : writer.prov[j].role = "params"})
                      = len("w:p") + len("w:r")

\* bare text for a control with both ranges cached, and a fragment with w:r
\* for a control with a cached run range: no property event
C6_Witness ==
    /\ \E w \in Writes :
          /\ Generated(w, "w:r") /\ Generated(w, "w:p")
          /\ CachedRange(w.ctl, "w:r") # <<>>
          /\ CachedRange(w.ctl, "w:p") # <<>>
          /\ Cardinality({j \in Span(w) : writer.prov[j].role = "params"}) = 6
    /\ \E w \in Writes :
          /\ ~Generated(w, "w:r")
          /\ CachedRange(w.ctl, "w:r") # <<>>
          /\ \A j \in Span(w) : writer.prov[j].role # "params"

-----------------------------------------------------------------------------
(* Vocabulary of the properties of the repeating-section arm *)

\* position c lies in the body of position p
InBodyOf(p, c) ==
    /\ Positions[c].begin >= Positions[p].content_begin
    /\ Positions[c].end <= Positions[p].content_end

\* the repeating sections the loop over doc.events dispatches on
Sections_Dispatched ==
    {p \in 1..Len(Positions) :
        TopLevel(p) /\ Positions[p].type = "RepeatingSection"
                    /\ CopyPlace(Positions[p].content_end) # 0}

\* the first RepeatingSectionItem in the body of p, 0 if there is none
ItemOf(p) ==
    LET items == {c \in 1..Len(Positions) :
                     InBodyOf(p, c) /\ Positions[c].type = "RepeatingSectionItem"}
    IN  IF items = {} THEN 0
        ELSE CHOOSE c \in items :
                 \A d \in items : Positions[c].begin <= Positions[d].begin

\* the sequence of sub-mappings given for section p
ValuesOf(p) ==
    IF Positions[p].tag \in DOMAIN repeat_mappings
    THEN repeat_mappings[Positions[p].tag] ELSE <<>>

\* the event indices of the item template that lie strictly inside no body
\* of a control of the template, in order
ItemKept(it) ==
    SelectSeq([n \in 1..(Positions[it].end - Positions[it].begin + 1)
                  |-> Positions[it].begin + n - 1],
              LAMBDA idx : ~\E g \in 1..Len(Positions) :
                               /\ InBodyOf(it, g)
                               /\ Positions[g].content_begin < idx
                               /\ idx < Positions[g].content_end)

\* the places of out between the copies of p's w:sdtContent Start and End
BodyOut(p) ==
    (CopyPlace(Positions[p].content_begin) + 1)
        .. (CopyPlace(Positions[p].content_end) - 1)

\* the places in the output body of p that hold the item events of copy k
ItemPlaces(p, k) ==
    SelectSeq([n \in 1..Cardinality(BodyOut(p))
                  |-> CopyPlace(Positions[p].content_begin) + n],
              LAMBDA j : /\ writer.prov[j].role = "item"
                         /\ writer.prov[j].sec = p /\ writer.prov[j].k = k)

\* the value of mapping m for tag, the text MISSING if it has none
ValueFor(m, tag) == IF tag \in DOMAIN m THEN m[tag] ELSE <<Tx("MISSING")>>

\* copy k of the item template it of section p stands at the places js
IsCopy(p, it, k, js) ==
    /\ Len(js) = Len(ItemKept(it))
    /\ \A n \in 1..Len(js) :
          LET idx == ItemKept(it)[n]
              gs == {g \in 1..Len(Positions) :
                        InBodyOf(it, g) /\ Positions[g].content_begin = idx}
              nxt == IF n < Len(js) THEN js[n + 1]
                     ELSE IF k < Len(ValuesOf(p)) THEN ItemPlaces(p, k + 1)[1]
                     ELSE CopyPlace(Positions[p].content_end)
          IN  /\ writer.prov[js[n]].src = idx
              /\ writer.out[js[n]] = events[idx + 1]
              /\ IF gs = {} THEN nxt = js[n] + 1
                 ELSE \E w \in Writes :
                          /\ w.ctl \in gs /\ w.sec = p /\ w.k = k
                          /\ w.lo = js[n] + 1 /\ nxt = w.hi + 1
                          /\ w.content = ValueFor(ValuesOf(p)[k], Positions[w.ctl].tag)
                          /\ \A j \in Span(w) : writer.prov[j].role # "item"

\* C7: for a repeating section P with an item template and N sub-mappings the
\* output body of P is N copies of the events [item.begin, item.end], in the
\* order of the sub-mappings; in copy k the body of each control that lies
\* directly in the template is replaced by what write_content writes for the
\* k-th sub-mapping's value of its tag (MISSING if it has none: the flat
\* mapping is not consulted), and the other item events are copied unchanged.
C7_SectionBodyIsCopiesOfItem ==
    MapDone =>
        \A p \in Sections_Dispatched :
            ItemOf(p) # 0 =>
                /\ \A k \in 1..Len(ValuesOf(p)) :
                      IsCopy(p, ItemOf(p), k, ItemPlaces(p, k))
                /\ Len(ValuesOf(p)) > 0 =>
                      ItemPlaces(p, 1)[1] = CopyPlace(Positions[p].content_begin) + 1
                /\ \A j \in BodyOut(p) :
                      writer.prov[j].sec = p /\ writer.prov[j].k \in 1..Len(ValuesOf(p))

\* a section expanded twice whose template holds two controls, one of them
\* given different values in the two copies and one missing from a sub-mapping
\* while the flat mapping has it
C7_Witness ==
    /\ MapDone
    /\ \E p \in Sections_Dispatched :
          /\ ItemOf(p) # 0
          /\ Len(ValuesOf(p)) = 2
          /\ ValuesOf(p)[1] # ValuesOf(p)[2]
          /\ \E w1, w2 \in Writes :
                /\ w1.sec = p /\ w2.sec = p /\ w1.ctl = w2.ctl
                /\ w1.k = 1 /\ w2.k = 2
                /\ w1.content # w2.content
          /\ \E w \in Writes :
                /\ w.sec = p
                /\ Positions[w.ctl].tag \notin DOMAIN ValuesOf(p)[w.k]
                /\ Positions[w.ctl].tag \in DOMAIN mappings
                /\ w.content = <<Tx("MISSING")>>

\* the event indices of the body of section p that lie outside its item
\* template (all of the body if it has none)
OutsideItem(p) ==
    {idx \in (Positions[p].content_begin + 1) .. (Positions[p].content_end - 1) :
        ItemOf(p) = 0 \/ idx < Positions[ItemOf(p)].begin
                      \/ idx > Positions[ItemOf(p)].end}

\* C8: no event of the body of a repeating section P that lies outside the
\* item template is written to the output, and when P has no sub-mapping or no
\* item template the copy of its w:sdtContent End directly follows that of its
\* w:sdtContent Start.
C8_OutsideItemDiscarded ==
    MapDone =>
        \A p \in Sections_Dispatched :
            /\ \A j \in 1..Len(writer.out) :
                  writer.prov[j].role # "repl" => writer.prov[j].src \notin OutsideItem(p)
            /\ (ItemOf(p) = 0 \/ Len(ValuesOf(p)) = 0) => BodyOut(p) = {}

-----------------------------------------------------------------------------
(* Vocabulary of the properties of remove_content_controls *)

Stripping == op = "strip"

\* the number of events of data before index n that are a kind of the name
CountOf(kind, name, n) ==
    Cardinality({m \in 1..n : data[m].type = kind /\ data[m].name = name})

\* the event of index idx lies in a span from a Start of w:sdtPr through its
\* End, both included (through the end of the part if the span is not closed)
InSdtPr(idx) ==
    CountOf("Start", "w:sdtPr", idx + 1) > CountOf("End", "w:sdtPr", idx)

\* the event of index idx is the Start or the End of a w:sdt or w:sdtContent
IsFraming(idx) ==
    /\ data[idx + 1].type \in {"Start", "End"}
    /\ data[idx + 1].name \in {"w:sdt", "w:sdtContent"}

\* the event of index idx lies strictly inside a w:sdtContent element
InSdtContent(idx) ==
    CountOf("Start", "w:sdtContent", idx) > CountOf("End", "w:sdtContent", idx)

\* C9: remove_content_controls emits the events of the part in order, each
\* once and unchanged, but for the Start and End events of w:sdt and
\* w:sdtContent and the events from a Start of w:sdtPr through its End
\* (checked after every event read, for the events read so far).
C9_StripDropsFramingAndSdtPr ==
    Stripping =>
        LET kept == Indices(reader, LAMBDA idx : /\ ~IsFraming(idx)
                                                 /\ ~InSdtPr(idx)
                                                 /\ data[idx + 1].type # "Eof")
        IN  /\ writer.out = [n \in 1..Len(kept) |-> data[kept[n] + 1]]
            /\ \A n \in 1..Len(kept) : writer.prov[n].src = kept[n]

\* a stripped part with a control nested in a body: framing and header
\* dropped, the events around and inside the bodies kept
C9_Witness ==
    /\ StripDone
    /\ \E a, b \in 0..(Len(data) - 1) :
          /\ a < b
          /\ data[a + 1] = St("w:sdtContent") /\ data[b + 1] = St("w:sdtContent")
          /\ InSdtContent(b)
          /\ \E c \in (b + 1)..(Len(data) - 1) :
                InSdtContent(c) /\ CopyPlace(c) # 0 /\ data[c + 1].type = "Text"
    /\ \E a \in 0..(Len(data) - 1) :
          data[a + 1].name = "w:tag" /\ InSdtPr(a) /\ CopyPlace(a) = 0
    /\ CopyPlace(0) = 1
    /\ CopyPlace(Len(data) - 2) = Len(writer.out)

\* C10: the output of a stripped part holds no event of any kind named w:sdt,
\* w:sdtPr or w:sdtContent and none of an end-properties block, and every
\* event that was inside a w:sdtContent and outside any w:sdtPr, the framing
\* of inner controls apart, is still there.
C10_StripErasesAllMetadata ==
    StripDone =>
        /\ \A j \in 1..Len(writer.out) :
              /\ writer.out[j].name \notin {"w:sdt", "w:sdtPr", "w:sdtContent", "w:sdtEndPr"}
              /\ CountOf("Start", "w:sdtEndPr", writer.prov[j].src)
                    = CountOf("End", "w:sdtEndPr", writer.prov[j].src)
        /\ \A idx \in 0..(Len(data) - 2) :
              InSdtContent(idx) /\ ~InSdtPr(idx) /\ ~IsFraming(idx)
                  => CopyPlace(idx) # 0

-----------------------------------------------------------------------------
(* Vocabulary of the properties of blob stores *)

\* the operation has visited every part of the blob store
OpDone == pc = "done"

\* the bytes hold the substring <w:sdt>: a w:sdt start tag without attributes
HoldsSdtTag(bytes) ==
    \E n \in 1..Len(bytes) :
        bytes[n].type = "Start" /\ bytes[n].name = "w:sdt" /\ bytes[n].val = NoAttr

\* C11: strip is idempotent: remove_content_controls run on the blob store a
\* first remove_content_controls returned returns the same blob store, part
\* by part (input is here the result of the first run).
C11_StripIdempotent ==
    (op = "strip" /\ round = 2 /\ OpDone) =>
        /\ DOMAIN output = DOMAIN input
        /\ \A n \in DOMAIN input : output[n] = input[n]

\* a second strip has ended on a store of which the first strip changed a
\* part (the part read last, whose events the first strip dropped some of)
\* and copied another
C11_Witness ==
    /\ op = "strip" /\ round = 2 /\ OpDone
    /\ state.is_eof
    /\ Len(writer.out) > 0
    /\ Len(writer.out) < Len(data) - 1
    /\ output[filename] # <<>>
    /\ \E n, m \in DOMAIN output :
          /\ n # m
          /\ output[n] = Serialize(writer.out)
          /\ output[m] = <<Tx("PNG")>>

\* C12: map_content_controls and remove_content_controls return a blob store
\* with the part names of the one given, in which every part whose bytes do
\* not hold <w:sdt> has the bytes given; until then only visited parts are in.
C12_NamesKeptPlainPartsCopied ==
    /\ DOMAIN output \subseteq DOMAIN input
    /\ OpDone => DOMAIN output = DOMAIN input
    /\ \A n \in DOMAIN output : ~HoldsSdtTag(input[n]) => output[n] = input[n]

\* an operation has ended on a store with a part that holds <w:sdt>, and was
\* rewritten, a part with a w:sdt start tag that has attributes, and an image
C12_Witness ==
    /\ OpDone /\ round = 1
    /\ \E a, b, c \in DOMAIN output :
          /\ HoldsSdtTag(input[a]) /\ output[a] # input[a]
          /\ ~HoldsSdtTag(input[b])
          /\ \E k \in 1..Len(input[b]) : input[b][k].name = "w:sdt"
          /\ output[c] = <<Tx("PNG")>>

-----------------------------------------------------------------------------
(* Vocabulary of the properties of the positions *)

Four == <<"begin", "content_begin", "content_end", "end">>

\* C13: for every position consume builds, begin < content_begin <
\* content_end < end when all four are set, every offset is at least -1, and
\* the offsets that are set stand in the order begin <= content_begin <=
\* content_end <= end (an offset still -1 is left out of the chain).
C13_OffsetsOrdered ==
    \A c \in 1..Len(Positions) :
        LET P == Positions[c]
        IN  /\ (\A f \in 1..4 : P[Four[f]] >= 0) =>
                  /\ P.begin < P.content_begin
                  /\ P.content_begin < P.content_end
                  /\ P.content_end < P.end
            /\ \A f \in 1..4 : P[Four[f]] >= -1
            /\ \A f, g \in 1..4 :
                  (f < g /\ P[Four[f]] >= 0 /\ P[Four[g]] >= 0)
                      => P[Four[f]] <= P[Four[g]]

\* a scan of the part data has just ended: state holds its positions
ScanDone ==
    /\ state.is_eof
    /\ reader = Len(data)
    /\ \/ op = "map" /\ pc \in {"scan_parts", "scanned"}
       \/ op = "strip" /\ pc \in {"strip_parts", "done"}

\* C14: after any sequence of consume calls the positions are in strictly
\* increasing order of begin, so no two positions share a begin.
C14_StrictlyOrderedByBegin ==
    \A a, b \in 1..Len(Positions) :
        a < b => Positions[a].begin < Positions[b].begin

\* a scan has built three positions, one of them inside another
C14_Witness ==
    /\ ScanDone
    /\ Len(Positions) = 3
    /\ Positions[2].begin < Positions[1].end
    /\ Positions[3].begin > Positions[1].end

\* the event indices from begin to end (none while the position is open)
Interval(P) == P.begin..P.end

\* C15: for any two positions of a part the intervals [begin, end] are
\* disjoint or one strictly contains the other; they never overlap in part.
C15_StrictNesting ==
    \A a, b \in 1..Len(Positions) :
        a # b =>
            LET I == Interval(Positions[a])
                J == Interval(Positions[b])
            IN  \/ I \cap J = {}
                \/ I \subseteq J /\ I # J
                \/ J \subseteq I /\ J # I

\* a scan has closed a position that holds a second one and is followed by a
\* third
C15_Witness ==
    /\ ScanDone
    /\ \E a, b, c \in 1..Len(Positions) :
          /\ Positions[a].end >= 0 /\ Positions[b].end >= 0
          /\ Positions[c].end >= 0
          /\ Interval(Positions[b]) \subseteq Interval(Positions[a])
          /\ Interval(Positions[b]) # Interval(Positions[a])
          /\ Interval(Positions[c]) \cap Interval(Positions[a]) = {}

-----------------------------------------------------------------------------
(* The elements of the part data, read off its events alone *)

\* the number of elements open before the event of index n
Depth(n) ==
    Cardinality({m \in 1..n : data[m].type = "Start"})
        - Cardinality({m \in 1..n : data[m].type = "End"})

\* the index of the End that closes the Start of index a, -1 if there is none
MatchEnd(a) ==
    LET ends == {b \in (a + 1)..(Len(data) - 1) :
                    data[b + 1].type = "End" /\ Depth(b + 1) = Depth(a)}
    IN  IF ends = {} THEN -1 ELSE CHOOSE b \in ends : \A x \in ends : b <= x

StartsOf(name) ==
    {a \in 0..(Len(data) - 1) : data[a + 1] = St(name)}

ProperlyNested ==
    /\ \A n \in 0..Len(data) : Depth(n) >= 0
    /\ Depth(Len(data)) = 0
    /\ \A a \in 0..(Len(data) - 1) :
          data[a + 1].type = "Start" =>
              MatchEnd(a) >= 0 /\ data[MatchEnd(a) + 1].name = data[a + 1].name

\* the child elements named w:sdtContent of the w:sdt that starts at index a
ContentChildren(a) ==
    {k \in (a + 1)..(MatchEnd(a) - 1) :
        /\ data[k + 1].type \in {"Start", "Empty"}
        /\ data[k + 1].name = "w:sdtContent"
        /\ Depth(k) = Depth(a) + 1}

\* the index of the last event of the element that begins at index k
LastOf(k) == IF data[k + 1].type = "Start" THEN MatchEnd(k) ELSE k

\* C16: after the scan of a part whose elements are properly nested and in
\* which every w:sdt is closed and has exactly one w:sdtContent child, there
\* is exactly one position per Start of w:sdt, and its begin, content_begin,
\* content_end and end are set to the indices of the Start of that w:sdt, of
\* the first and of the last event of its own w:sdtContent child, and of its
\* own End.
C16_PositionsAreOwnEvents ==
    (/\ ScanDone
     /\ ProperlyNested
     /\ \A a \in StartsOf("w:sdt") : Cardinality(ContentChildren(a)) = 1)
    => /\ Len(Positions) = Cardinality(StartsOf("w:sdt"))
       /\ \A a \in StartsOf("w:sdt") :
             \E c \in 1..Len(Positions) :
                 LET P == Positions[c]
                     k == CHOOSE x \in ContentChildren(a) : TRUE
                 IN  /\ P.begin = a
                     /\ P.content_begin = k
                     /\ P.content_end = LastOf(k)
                     /\ P.end = MatchEnd(a)

-----------------------------------------------------------------------------
(* Mapping with nothing to map *)

EmptyMappings == mappings = Empty /\ repeat_mappings = Empty

\* the output between the copies of the w:sdtContent Start and End of
\* position c is what one call of write_content wrote for c: "MISSING" inside
\* the whole ladder (cached property events apart)
BodyIsMissing(c) ==
    LET j0 == CopyPlace(Positions[c].content_begin)
        j1 == CopyPlace(Positions[c].content_end)
    IN  /\ j0 # 0 /\ j1 # 0
        /\ \E w \in Writes :
              /\ w.ctl = c
              /\ w.lo = j0 + 1 /\ w.hi = j1 - 1
              /\ w.content = <<Tx("MISSING")>>
              /\ Written(w, LAMBDA r : r # "params")
                    = Wrapped(LadderOf(c), Len(LadderOf(c)), <<Tx("MISSING")>>)

\* C17 as stated: mapping with an empty flat mapping and an empty repeat
\* mapping replaces the body of every control by "MISSING" inside the ladder
\* of write_content.
C17_EveryBodyIsMissing ==
    (MapDone /\ EmptyMappings) =>
        \A c \in 1..Len(Positions) : HasBody(c) => BodyIsMissing(c)

\* C17 amended: with both mappings empty, the body of every control that lies
\* in no other control's body and is no repeating section is replaced by
\* "MISSING" inside the whole ladder; the body of such a repeating section is
\* replaced by nothing; a control inside another control's body is not
\* written at all.
C17_OutermostBodyIsMissing ==
    (MapDone /\ EmptyMappings) =>
        \A c \in 1..Len(Positions) :
            /\ (TopLevel(c) /\ Positions[c].type # "RepeatingSection")
                  => BodyIsMissing(c)
            /\ (TopLevel(c) /\ Positions[c].type = "RepeatingSection")
                  => /\ CopyPlace(Positions[c].content_begin) # 0
                     /\ CopyPlace(Positions[c].content_end)
                           = CopyPlace(Positions[c].content_begin) + 1
            /\ (HasBody(c) /\ InSomeBody(Positions[c].begin))
                  => /\ CopiesOf(Positions[c].begin) = {}
                     /\ \A w \in Writes : w.ctl # c

\* a finished mapping with both mappings empty of a part with a control whose
\* body became "MISSING" and, in that body, a second control that is gone
C17_Witness ==
    /\ MapDone /\ EmptyMappings
    /\ \E c, d \in 1..Len(Positions) :
          /\ TopLevel(c) /\ BodyIsMissing(c)
          /\ HasBody(d) /\ Positions[d].begin \in Interior(c)
          /\ \A w \in Writes : w.ctl # d

\* a finished mapping with both mappings empty of a part with a repeating
\* section whose body became empty
C17_SectionWitness ==
    /\ MapDone /\ EmptyMappings
    /\ \E c \in 1..Len(Positions) :
          /\ TopLevel(c) /\ Positions[c].type = "RepeatingSection"
          /\ Interior(c) # {}
          /\ CopyPlace(Positions[c].content_end)
                = CopyPlace(Positions[c].content_begin) + 1

-----------------------------------------------------------------------------
(* Positions that break the order of the offsets *)

\* position P is left open, has a body that is begun and not ended or ended
\* and not begun, or has its body end after its own end
Violates(P) ==
    \/ P.end = -1
    \/ P.content_begin >= 0 /\ P.content_end = -1
    \/ P.content_begin = -1 /\ P.content_end >= 0
    \/ P.content_end > P.end

\* C18: when the positions a scan has built break the order of the offsets
\* (an SDT still open at the end of the part, say) the operation fails and
\* puts no part for that file into its result.
C18_BrokenPositionsNoOutput ==
    (state.is_eof /\ \E c \in 1..Len(Positions) : Violates(Positions[c]))
        => filename \notin DOMAIN output

-----------------------------------------------------------------------------
(* The kind of a position at its close *)

\* the step is a call of consume on an End of w:sdt
ClosesSdt ==
    /\ pc \in {"scan", "strip"}
    /\ reader' = reader + 1
    /\ data[reader + 1] = En("w:sdt")

\* what a close does to the kinds: a kind that is not Unsupported stays, and
\* the position that is closed has RichText for Unsupported
KindsAtClose ==
    /\ Len(state'.controls) = Len(state.controls)
    /\ \A c \in 1..Len(state.controls) :
          LET P == state.controls[c]
              Q == state'.controls[c]
          IN  /\ P.type # "Unsupported" => Q.type = P.type
              /\ (P.end = -1 /\ Q.end >= 0) =>
                    Q.type = IF P.type = "Unsupported" THEN "RichText" ELSE P.type

\* C19: the End of a w:sdt promotes the position it closes from Unsupported
\* to RichText and changes no kind that was set, so no closed position
\* (end >= 0) has the kind Unsupported.
C19_ClosedIsNeverUnsupported ==
    /\ [](\A c \in 1..Len(Positions) :
              Positions[c].end >= 0 => Positions[c].type # "Unsupported")
    /\ [][ClosesSdt => KindsAtClose]_vars

\* the header of position c holds no element that names a kind
NoKindGiven(c) ==
    \A k \in Positions[c].begin..Positions[c].content_begin :
        data[k + 1].type = "Empty" => parse_string(data[k + 1].name) = "None"

\* a scan has closed a position without a kind element, now RichText, and one
\* with a kind element, which has kept its kind
C19_Witness ==
    /\ ScanDone
    /\ \E c, d \in 1..Len(Positions) :
          /\ HasBody(c) /\ Positions[c].end >= 0
          /\ NoKindGiven(c) /\ Positions[c].type = "RichText"
          /\ HasBody(d) /\ Positions[d].end >= 0
          /\ ~NoKindGiven(d)
          /\ Positions[d].type \notin {"RichText", "Unsupported"}

-----------------------------------------------------------------------------
(* Controls without a tag *)

\* the events from the w:sdt Start of position c to its w:sdtContent Start
\* hold no w:tag
NoTagGiven(c) ==
    \A k \in Positions[c].begin..Positions[c].content_begin :
        events[k + 1].name # "w:tag"

\* C20: a control without a w:tag element has the tag "", and whatever the
\* flat mapping is, the lookup for it finds nothing: its body is replaced by
\* "MISSING" (stated for the controls the flat mapping is consulted for:
\* those that lie in no other body and are no repeating section).
C20_UntaggedIsMissing ==
    MapDone =>
        \A c \in 1..Len(Positions) :
            (TopLevel(c) /\ Positions[c].type # "RepeatingSection" /\ NoTagGiven(c))
                => Positions[c].tag = "" /\ BodyIsMissing(c)

-----------------------------------------------------------------------------
(* Fragments the Reader rejects *)

\* C21: replacement fragments are not validated: also when a fragment is one
\* the Reader rejects, map_content_controls does not abort (it goes on and
\* returns its output).
C21_MalformedFragmentNoAbort == pc # "panicked"

-----------------------------------------------------------------------------
(* Two runs of map_content_controls that differ in one kind *)

Kinds ==
    {"Unsupported", "RichText", "Text", "ComboBox", "DropdownList", "Date",
     "RepeatingSection", "RepeatingSectionItem"}

\* the positions with the kind of position c replaced
WithKind(ctrls, c, kind) == [ctrls EXCEPT ![c].type = kind]

\* what the loop over doc.events writes for a part, all turns
MapOut(ctrls, evs, flat, repeat) ==
    CatRange([n \in 1..Len(evs) |->
                 MapEvent(NewWriter, ctrls, evs, n - 1, flat, repeat)],
             1, Len(evs)).out

\* position c lies in the body of a position that is a repeating section
InSection(c) ==
    \E p \in 1..Len(Positions) :
        /\ Positions[p].type = "RepeatingSection"
        /\ Contained(Positions, Positions[p], c)

\* C22 as stated: the output of map_content_controls is the same for two
\* inputs that differ only in the kind of one position when neither kind is
\* RepeatingSection.
C22_KindOnlyThroughSection ==
    MapDone =>
        \A c \in 1..Len(Positions) : \A kind \in Kinds \ {"RepeatingSection"} :
            Positions[c].type # "RepeatingSection" =>
                MapOut(WithKind(Positions, c, kind), events, mappings,
                       repeat_mappings) = writer.out

\* C22 amended: the same when neither kind is RepeatingSection and, for a
\* position in the body of a repeating section, neither kind is
\* RepeatingSectionItem.
C22_KindOnlyThroughSectionAndItem ==
    MapDone =>
        \A c \in 1..Len(Positions) : \A kind \in Kinds \ {"RepeatingSection"} :
            (/\ Positions[c].type # "RepeatingSection"
             /\ InSection(c) => /\ Positions[c].type # "RepeatingSectionItem"
                                /\ kind # "RepeatingSectionItem")
                => MapOut(WithKind(Positions, c, kind), events, mappings,
                          repeat_mappings) = writer.out

\* a finished mapping that replaced the body of a RepeatingSectionItem that
\* lies in no repeating section by the flat mapping's value
C22_Witness ==
    /\ MapDone
    /\ \E w \in Writes :
          /\ w.sec = 0 /\ TopLevel(w.ctl) /\ ~InSection(w.ctl)
          /\ Positions[w.ctl].type = "RepeatingSectionItem"
          /\ Positions[w.ctl].tag \in DOMAIN mappings
          /\ w.content = FR

-----------------------------------------------------------------------------
(* The position selected for an event index *)

\* the positions whose body range [content_begin, content_end) holds idx
BodiesAt(idx) ==
    {c \in 1..Len(Positions) :
        Positions[c].content_begin <= idx /\ idx < Positions[c].content_end}

\* the one of them that begins last (nested deepest), 0 if there is none
Innermost(idx) ==
    IF BodiesAt(idx) = {} THEN 0
    ELSE CHOOSE c \in BodiesAt(idx) :
             \A d \in BodiesAt(idx) : Positions[d].begin <= Positions[c].begin

\* the one of them that begins first, 0 if there is none
Outermost(idx) ==
    IF BodiesAt(idx) = {} THEN 0
    ELSE CHOOSE c \in BodiesAt(idx) :
             \A d \in BodiesAt(idx) : Positions[c].begin <= Positions[d].begin

\* the number of calls of write_content the loop over doc.events made for
\* position c itself (not for a copy of c in a repeating section)
FlatWrites(c) ==
    Cardinality({n \in 1..Len(writer.writes) :
                    writer.writes[n].ctl = c /\ writer.writes[n].sec = 0})

\* one replacement is written for c if c is no repeating section and is the
\* position selected at its own content_begin, once the loop is past it
ReplacedOnceIfSelected(c, sel) ==
    FlatWrites(c) = IF /\ Positions[c].type # "RepeatingSection"
                       /\ Positions[c].content_begin >= 0
                       /\ Positions[c].content_begin < i
                       /\ sel = c
                    THEN 1 ELSE 0

\* C23 as stated: for each event index the position selected is the innermost
\* one whose body holds the index, and a replacement is written for a
\* position exactly when the index is its content_begin and it is selected.
C23_InnermostSelected ==
    MapRunning =>
        /\ \A idx \in 0..(Len(events) - 1) :
              get_intersecting_control_position(idx, Positions) = Innermost(idx)
        /\ \A c \in 1..Len(Positions) :
              ReplacedOnceIfSelected(c, Innermost(Positions[c].content_begin))

\* C23 amended: the position selected is the first in the list, the one that
\* begins first (the outermost), of those whose body holds the index; a
\* replacement is written for a position exactly when the index is its
\* content_begin and it is the one selected.
C23_OutermostSelected ==
    MapRunning =>
        /\ \A idx \in 0..(Len(events) - 1) :
              get_intersecting_control_position(idx, Positions) = Outermost(idx)
        /\ \A c \in 1..Len(Positions) :
              ReplacedOnceIfSelected(c, Outermost(Positions[c].content_begin))

\* a finished mapping of a part with an index in the bodies of two positions,
\* in which the outer body was replaced and the inner one was not
C23_Witness ==
    /\ MapDone
    /\ \E idx \in 0..(Len(events) - 1) :
          /\ Cardinality(BodiesAt(idx)) = 2
          /\ FlatWrites(Outermost(idx)) = 1
          /\ FlatWrites(Innermost(idx)) = 0

-----------------------------------------------------------------------------
(* Paragraphs in a body *)

\* a w:p starts strictly between the w:sdtContent Start and End of position c
ParagraphStartsIn(c) ==
    \E k \in (Positions[c].content_begin + 1)..(Positions[c].content_end - 1) :
        data[k + 1].type = "Start" /\ data[k + 1].name = "w:p"

\* C24: after the scan, for every position with a body, contains_paragraph
\* is true if and only if a Start of w:p has an index strictly between
\* content_begin and content_end (so a paragraph of an outer body that starts
\* after a nested control has closed is counted for the outer control and not
\* for the nested one).
C24_ContainsParagraphIffInBody ==
    ScanDone =>
        \A c \in 1..Len(Positions) :
            HasBody(c) => (Positions[c].contains_paragraph <=> ParagraphStartsIn(c))

-----------------------------------------------------------------------------
(* The cached property ranges *)

\* the event of index k is the Start of a block named props inside an
\* element named holder
BlockStart(k, props, holder) ==
    /\ data[k + 1].type = "Start" /\ data[k + 1].name = props
    /\ CountOf("Start", holder, k) > CountOf("End", holder, k)

\* [start, stop) is the first block named props inside an element named
\* holder in the body of position c
FirstBlockOfBody(c, start, stop, props, holder) ==
    /\ start < stop /\ stop <= Len(data)
    /\ BlockStart(start, props, holder)
    /\ stop - 1 = MatchEnd(start)
    /\ Positions[c].content_begin < start /\ stop <= Positions[c].content_end
    /\ \A k \in (Positions[c].content_begin + 1)..(start - 1) :
          ~BlockStart(k, props, holder)

\* C25: after the scan (of a part whose elements are properly nested), for
\* every position with run_params_start >= 0 the range [run_params_start,
\* run_params_end) is the first w:rPr block inside a w:r in the position's own
\* body, from its Start to its End; the same for paragraph_params with w:pPr
\* inside w:p.
C25_ParamsAreFirstBlockOfOwnBody ==
    (ScanDone /\ ProperlyNested) =>
        \A c \in 1..Len(Positions) :
            LET P == Positions[c]
            IN  /\ P.run_params_start >= 0 =>
                      FirstBlockOfBody(c, P.run_params_start, P.run_params_end,
                                       "w:rPr", "w:r")
                /\ P.paragraph_params_start >= 0 =>
                      FirstBlockOfBody(c, P.paragraph_params_start,
                                       P.paragraph_params_end, "w:pPr", "w:p")

-----------------------------------------------------------------------------
(* Where a kind or a tag is recorded *)

\* the step is a call of consume on the event e
Consumes(e) ==
    /\ pc \in {"scan", "strip"}
    /\ reader' = reader + 1
    /\ e = data[reader + 1]

\* position c has its header open at the event being consumed
HeaderOpen(c) ==
    /\ state.controls[c].begin >= 0 /\ state.controls[c].begin < state.counter
    /\ state.controls[c].content_begin = -1
    /\ state.controls[c].end = -1

\* the last of the positions that have their header open, 0 if there is none
HeaderOpenLast ==
    LET hs == {c \in 1..Len(state.controls) : HeaderOpen(c)}
    IN  IF hs = {} THEN 0 ELSE CHOOSE c \in hs : \A d \in hs : d <= c

\* the event is an Empty kind element (a w:tag with a w:val) met inside w:sdtPr
RecordsKind(e) ==
    e.type = "Empty" /\ parse_string(e.name) # "None"
        /\ StatesGet(state, "w:sdtPr") > 0

RecordsTag(e) ==
    e.type = "Empty" /\ e.name = "w:tag" /\ e.val # NoAttr
        /\ StatesGet(state, "w:sdtPr") > 0

\* the step records the kind and the tag on the positions kindAt and tagAt
\* (0: nowhere) and changes no other kind or tag, the promotion at the End of
\* a w:sdt apart
RecordedAt(e, kindAt, tagAt) ==
    \A c \in 1..Len(state.controls) :
        LET P == state.controls[c]
            Q == state'.controls[c]
        IN  /\ Q.tag = IF RecordsTag(e) /\ c = tagAt THEN e.val ELSE P.tag
            /\ e # En("w:sdt") =>
                  Q.type = IF RecordsKind(e) /\ c = kindAt
                           THEN parse_string(e.name) ELSE P.type

\* C26 as stated: a kind or a tag is recorded only for an Empty event met
\* inside w:sdtPr, on the position whose header is open then and on no other;
\* no other event changes a kind or a tag.
C26_RecordedOnOpenHeader ==
    [][\A e \in {data[n] : n \in 1..Len(data)} :
          Consumes(e) => RecordedAt(e, HeaderOpenLast, HeaderOpenLast)]_vars

\* C26 amended: the kind is recorded on the last position whose header is
\* open, the tag on the last position pushed, whatever its state.
C26_KindOnOpenHeaderTagOnLast ==
    [][\A e \in {data[n] : n \in 1..Len(data)} :
          Consumes(e) => RecordedAt(e, HeaderOpenLast, Len(state.controls))]_vars

\* a scan of the part with the elements out of place has ended: the tag of
\* its control is that of the w:tag in its body, its kind is not Date
C26_Witness ==
    /\ ScanDone
    /\ data \in Misplaced
    /\ Len(Positions) = 1
    /\ Positions[1].tag = "X" /\ Positions[1].type = "RichText"

-----------------------------------------------------------------------------
(* The counter and the buffered events *)

\* a scan of the part data is running or has just ended
Scanning == pc \in {"scan", "strip"} \/ ScanDone

\* the event of index idx is the one of the type and name given
IsEvent(idx, type, name) ==
    /\ idx >= 0 /\ idx < reader
    /\ data[idx + 1].type = type /\ data[idx + 1].name = name

\* every offset that is set is the index of an event of the name it stands
\* for (the two ends of the property ranges are one past the block's End)
OffsetsNameTheirEvents(P) ==
    /\ P.begin >= 0
    /\ IsEvent(P.begin, "Start", "w:sdt")
    /\ P.content_begin >= 0 => IsEvent(P.content_begin, "Start", "w:sdtContent")
    /\ P.content_end >= 0 => IsEvent(P.content_end, "End", "w:sdtContent")
    /\ P.end >= 0 => IsEvent(P.end, "End", "w:sdt")
    /\ P.run_params_start >= 0 => IsEvent(P.run_params_start, "Start", "w:rPr")
    /\ P.run_params_end >= 0 => IsEvent(P.run_params_end - 1, "End", "w:rPr")
    /\ P.paragraph_params_start >= 0 =>
          IsEvent(P.paragraph_params_start, "Start", "w:pPr")
    /\ P.paragraph_params_end >= 0 =>
          IsEvent(P.paragraph_params_end - 1, "End", "w:pPr")

\* C27: the counter is 0 before the first event and one more after every
\* event consumed, of whatever kind, so it is the number of events read; in
\* get_content_controls it is the length of the buffered events, which are
\* the events read, in order; every offset stored in a position is the index
\* of an event of the name it stands for.
C27_CounterIsEventIndex ==
    Scanning =>
        /\ state.counter = reader
        /\ op = "map" => events = SubSeq(data, 1, reader)
        /\ \A c \in 1..Len(Positions) : OffsetsNameTheirEvents(Positions[c])

\* a scan has ended on a part with text, empty elements and a position with
\* all its offsets and a property range set
C27_Witness ==
    /\ ScanDone /\ op = "map"
    /\ state.counter = Len(data)
    /\ \E n \in 1..Len(data) : data[n].type = "Text"
    /\ \E n \in 1..Len(data) : data[n].type = "Empty"
    /\ \E c \in 1..Len(Positions) :
          /\ HasBody(c) /\ Positions[c].end >= 0
          /\ Positions[c].run_params_end > Positions[c].run_params_start
          /\ Positions[c].run_params_start > 0

-----------------------------------------------------------------------------
(* The depth counters *)

\* the element names of the part
NamesOf(evs) == {evs[n].name : n \in {m \in 1..Len(evs) : evs[m].type \in {"Start", "End"}}}

\* C28: after any sequence of consumed events the depth of a name is the
\* number of its Start events less the number of its End events among the
\* events consumed (one up at each Start, one down at each End), it is never
\* below 0, and is_in(name) holds exactly when it is above 0.
C28_DepthCountsOpenElements ==
    Scanning =>
        \A name \in NamesOf(data) :
            /\ StatesGet(state, name)
                  = CountOf("Start", name, reader) - CountOf("End", name, reader)
            /\ StatesGet(state, name) >= 0
            /\ is_in(state, name) <=> StatesGet(state, name) > 0

\* a scan is inside a control nested in another one, after the w:sdtPr
\* blocks of both have been closed
C28_Witness ==
    /\ pc = "scan"
    /\ StatesGet(state, "w:sdt") = 2
    /\ StatesGet(state, "w:sdtContent") = 2
    /\ "w:sdtPr" \in DOMAIN state.states /\ StatesGet(state, "w:sdtPr") = 0
    /\ ~is_in(state, "w:sdtPr") /\ is_in(state, "w:sdt")

\* the Reader has rejected the part at an end tag that closes nothing, before
\* consume was given it
C28_RejectedWitness ==
    /\ pc = "parse_error"
    /\ data[reader + 1] = En("w:p")
    /\ StatesGet(state, "w:p") = 0

-----------------------------------------------------------------------------
(* The name closed last *)

\* the event consumed last, the one being handled: both loops call consume on
\* an event before they do anything else with it
Handled == data[reader]

\* C29 as stated: last_seen_closed is visible during the event that
\* immediately follows the close: while the event after an End of a name is
\* handled, is_at(name) is true.
C29_VisibleAtFollowingEvent ==
    (Scanning /\ reader >= 2 /\ data[reader - 1].type = "End")
        => is_at(state, data[reader - 1].name)

\* C29 amended: last_seen_closed is the name of the event being handled if
\* that is an End and is empty otherwise: it is visible while the closing
\* event itself is handled and cleared when the next event is consumed;
\* is_at(name) is true exactly when the depth of the name is above 0 or the
\* event being handled is its End.
C29_VisibleAtClosingEvent ==
    Scanning =>
        /\ state.last_seen_closed
              = IF reader >= 1 /\ Handled.type = "End" THEN Handled.name ELSE ""
        /\ \A name \in NamesOf(data) :
              is_at(state, name) <=>
                  \/ StatesGet(state, name) > 0
                  \/ reader >= 1 /\ Handled = En(name)

\* remove_content_controls handles the event after the End of a w:sdtPr, with
\* no w:sdtPr open: is_at("w:sdtPr") is false again and the event is written
C29_Witness ==
    /\ pc = "strip" /\ reader >= 2
    /\ data[reader - 1] = En("w:sdtPr")
    /\ Handled = St("w:sdtEndPr")
    /\ ~is_at(state, "w:sdtPr")
    /\ writer.out # <<>> /\ writer.out[Len(writer.out)] = Handled

-----------------------------------------------------------------------------
(* Tables as replacements *)

\* the fragment has an element of the name, at any depth
Occurs(R, tag) ==
    \E n \in 1..Len(R) : R[n].type \in {"Start", "Empty"} /\ R[n].name = tag

\* the fragment has an element of the name that lies in no other element
OccursOutermost(R, tag) ==
    \E n \in 1..Len(R) :
        /\ R[n].type \in {"Start", "Empty"} /\ R[n].name = tag
        /\ Cardinality({x \in 1..(n - 1) : R[x].type = "Start"})
              = Cardinality({x \in 1..(n - 1) : R[x].type = "End"})

\* all that the call w of write_content wrote
AllWritten(w) == [n \in 1..(w.hi - w.lo + 1) |-> writer.out[w.lo + n - 1]]

\* C30: write_wrap_tags decides "already wrapped" by the names of the Start
\* and Empty events of the fragment at any depth: for a control that contains
\* a paragraph, a fragment with a w:p anywhere, be it only inside a w:tbl, is
\* written verbatim with no wrapper, and a fragment without any w:p, a w:tbl
\* among them, is written inside a generated w:p.
C30_WrappedByNamesAtAnyDepth ==
    MapRunning =>
        \A w \in Writes :
            Positions[w.ctl].contains_paragraph =>
                /\ Occurs(w.content, "w:p") =>
                      WrapCount(w) = 0 /\ AllWritten(w) = w.content
                /\ ~Occurs(w.content, "w:p") =>
                      /\ WrapCount(w) >= 1
                      /\ writer.out[w.lo] = St("w:p") /\ writer.prov[w.lo].role = "wrap"
                      /\ writer.out[w.hi] = En("w:p") /\ writer.prov[w.hi].role = "wrap"

\* a control that contains a paragraph was given a table whose only w:p lies
\* in a cell and wrote it verbatim, and another write gave such a control a
\* table without w:p and put it in a w:p
C30_Witness ==
    /\ \E w \in Writes :
          /\ Positions[w.ctl].contains_paragraph
          /\ w.content = FTblP
          /\ ~OccursOutermost(w.content, "w:p")
          /\ AllWritten(w) = FTblP
    /\ \E w \in Writes :
          /\ Positions[w.ctl].contains_paragraph
          /\ w.content = FTbl
          /\ writer.out[w.lo] = St("w:p")
          /\ \E j \in Span(w) : writer.out[j] = St("w:tbl")

-----------------------------------------------------------------------------
(* The controls inside a control *)

\* -1 <= begin <= content_begin <= content_end <= end
OffsetInvariant(P) ==
    /\ -1 <= P.begin /\ P.begin <= P.content_begin
    /\ P.content_begin <= P.content_end /\ P.content_end <= P.end

\* read off the events: the w:sdt of position c begins inside a w:sdtContent
\* child of the w:sdt of position p
NestedIn(c, p) ==
    /\ MatchEnd(Positions[p].begin) >= 0
    /\ \E k \in ContentChildren(Positions[p].begin) :
          /\ data[k + 1].type = "Start"
          /\ k < Positions[c].begin /\ Positions[c].begin < MatchEnd(k)

Range(q) == {q[n] : n \in 1..Len(q)}

\* C31: get_contained_control yields exactly the positions c with
\* c.begin >= parent.content_begin and c.end <= parent.content_end; among
\* positions that satisfy the offset invariant these are the controls nested
\* at any depth in the body of the parent, never the parent itself nor a
\* control outside it, and when all positions of a part satisfy it the child
\* tags listed for a tag are exactly the tags of the controls nested in the
\* controls of that tag.
C31_ContainedAreNested ==
    ScanDone =>
        /\ \A p \in 1..Len(Positions) :
              /\ get_contained_control(Positions, Positions[p])
                    = {c \in 1..Len(Positions) :
                          /\ Positions[c].begin >= Positions[p].content_begin
                          /\ Positions[c].end <= Positions[p].content_end}
              /\ OffsetInvariant(Positions[p]) =>
                    /\ p \notin get_contained_control(Positions, Positions[p])
                    /\ \A c \in 1..Len(Positions) :
                          OffsetInvariant(Positions[c]) =>
                              (c \in get_contained_control(Positions, Positions[p])
                                  <=> NestedIn(c, p))
        /\ (\A c \in 1..Len(Positions) : OffsetInvariant(Positions[c])) =>
              LET described == py_get_content_controls(Positions)
              IN  \A t \in DOMAIN described :
                      Range(described[t].children_tags)
                          = {Positions[c].tag : c \in {x \in 1..Len(Positions) :
                                \E p \in 1..Len(Positions) :
                                    Positions[p].tag = t /\ NestedIn(x, p)}}

\* a scan has found a control with a child and a grandchild and another one
\* outside it, all within the offset invariant: the first lists both tags,
\* the one outside lists none
C31_Witness ==
    /\ ScanDone
    /\ \A c \in 1..Len(Positions) : OffsetInvariant(Positions[c])
    /\ \E p, a, b, o \in 1..Len(Positions) :
          /\ NestedIn(a, p) /\ NestedIn(b, a) /\ ~NestedIn(o, p) /\ o # p
          /\ {a, b} \subseteq get_contained_control(Positions, Positions[p])
          /\ o \notin get_contained_control(Positions, Positions[p])
          /\ Positions[a].tag # Positions[b].tag
          /\ Positions[o].tag # Positions[p].tag
          /\ Range(py_get_content_controls(Positions)[Positions[p].tag].children_tags)
                = {Positions[c].tag : c \in get_contained_control(Positions, Positions[p])}
          /\ py_get_content_controls(Positions)[Positions[o].tag].children_tags = <<>>

-----------------------------------------------------------------------------
(* Nesting of what is written *)

\* the elements open after the first n events of a sequence, innermost first
RECURSIVE OpenAfter(_, _)
OpenAfter(evs, n) ==
    IF n = 0 THEN <<>>
    ELSE LET open == OpenAfter(evs, n - 1)
         IN  CASE open = <<"!">> -> open
               [] evs[n].type = "Start" -> <<evs[n].name>> \o open
               [] evs[n].type = "End" ->
                    IF open # <<>> /\ Head(open) = evs[n].name
                    THEN Tail(open) ELSE <<"!">>
               [] OTHER -> open

\* every Start has its End and every End closes the innermost open element
WellNested(evs) == OpenAfter(evs, Len(evs)) = <<>>

\* every replacement the mappings hold
Replacements ==
    {mappings[t] : t \in DOMAIN mappings}
        \cup UNION {UNION {{repeat_mappings[t][k][u] : u \in DOMAIN repeat_mappings[t][k]} :
                               k \in 1..Len(repeat_mappings[t])} :
                        t \in DOMAIN repeat_mappings}

\* C32: if the events of a part are properly nested and so is every
\* replacement, the events map_content_controls has written for the part are
\* properly nested, and so are those remove_content_controls has written.
C32_OutputWellNested ==
    /\ (/\ MapDone
        /\ WellNested(events)
        /\ \A R \in Replacements : WellNested(R))
          => WellNested(writer.out)
    /\ (StripDone /\ WellNested(data)) => WellNested(writer.out)

-----------------------------------------------------------------------------
(* Controls inside controls that do not repeat *)

\* the calls of write_content for position c
WritesFor(c) == {n \in 1..Len(writer.writes) : writer.writes[n].ctl = c}

\* the events of the w:sdt of position c, read off the part
ElementOf(c) ==
    Positions[c].begin ..
        (IF MatchEnd(Positions[c].begin) >= 0
         THEN MatchEnd(Positions[c].begin) ELSE Len(data) - 1)

\* position c lies in the body of a control and in no repeating section
InPlainBody(c) ==
    /\ \E p \in 1..Len(Positions) : NestedIn(c, p)
    /\ \A p \in 1..Len(Positions) :
          NestedIn(c, p) => Positions[p].type # "RepeatingSection"

\* position c lies in the body of no control
InNoBody(c) == \A p \in 1..Len(Positions) : ~NestedIn(c, p)

\* position c is no repeating section and, in a properly nested part, its
\* w:sdt has a w:sdtContent child with content
HasOwnBody(c) ==
    /\ Positions[c].type # "RepeatingSection"
    /\ WellNested(data)
    /\ \E k \in ContentChildren(Positions[c].begin) : data[k + 1].type = "Start"

\* C33: a control nested in the body of a control that does not repeat has
\* no output of its own: no replacement is written for it and none of its
\* events is copied; and exactly one replacement is written for every
\* control that is not inside the body of another control (read for the
\* controls that do not repeat and have a body to replace).
C33_OneReplacementPerOutermost ==
    MapDone =>
        \A c \in 1..Len(Positions) :
            /\ InPlainBody(c) =>
                  /\ WritesFor(c) = {}
                  /\ \A j \in 1..Len(writer.out) :
                        writer.prov[j].src \notin ElementOf(c)
            /\ (HasOwnBody(c) /\ InNoBody(c)) => Cardinality(WritesFor(c)) = 1

-----------------------------------------------------------------------------
(* Filling a part that was filled before *)

RECURSIVE ScanUpTo(_, _)
\* the state of get_content_controls after the first n events of a part
ScanUpTo(evs, n) ==
    IF n = 0 THEN NewState ELSE consume(ScanUpTo(evs, n - 1), evs[n])

\* get_content_controls for the bytes of one part
Scanned(bytes) ==
    LET evs == Read(bytes)
    IN  [events |-> evs, control_positions |-> ScanUpTo(evs, Len(evs)).controls]

\* the bytes map_content_controls returns for the bytes of one part
Filled(bytes, flat, repeat) ==
    LET doc == Scanned(bytes)
    IN  Serialize(MapOut(doc.control_positions, doc.events, flat, repeat))

\* no w:sdt of the part begins inside another one and no position is a
\* repeating section
FlatControls ==
    /\ \A a, b \in StartsOf("w:sdt") :
          a < b => MatchEnd(a) >= 0 /\ MatchEnd(a) < b
    /\ \A c \in 1..Len(Positions) : Positions[c].type # "RepeatingSection"

\* every value of the flat mapping is text without elements
PlainMapping ==
    \A t \in DOMAIN mappings :
        \A n \in 1..Len(mappings[t]) : mappings[t][n].type = "Text"

\* C34: for a part whose controls are not nested and are no repeating
\* sections and a flat mapping of plain texts, scanning what
\* map_content_controls returned and mapping it again with the same mapping
\* returns the same part.
C34_RefillIsStable ==
    (MapDone /\ FlatControls /\ PlainMapping) =>
        Filled(Serialize(writer.out), mappings, repeat_mappings) = Serialize(writer.out)

-----------------------------------------------------------------------------
(* A repeating section inside an item template *)

\* position b is a repeating section in the body of the item template of
\* section p and in the body of no other control of the template
SectionInTemplate(p, b) ==
    /\ ItemOf(p) # 0
    /\ Positions[b].type = "RepeatingSection"
    /\ InBodyOf(ItemOf(p), b)
    /\ \A c \in 1..Len(Positions) :
          (c # b /\ InBodyOf(ItemOf(p), c)) => ~InBodyOf(c, b)

\* the mapping without a key
Without(m, key) == [t \in DOMAIN m \ {key} |-> m[t]]

\* C35: a repeating section in the item template of a repeating section is
\* handled like any other control of the template: in the copy for the k-th
\* sub-mapping its body is replaced by the value of its tag in that
\* sub-mapping, or by "MISSING"; the repeat mapping is not consulted for it
\* (what is written does not depend on its entry) and its own item template
\* is not expanded (nothing is written on its behalf).
C35_InnerSectionIsGrandchild ==
    MapDone =>
        \A p \in Sections_Dispatched :
            \A b \in 1..Len(Positions) :
                SectionInTemplate(p, b) =>
                    /\ \A k \in 1..Len(ValuesOf(p)) :
                          /\ Cardinality({n \in 1..Len(writer.writes) :
                                /\ writer.writes[n].ctl = b
                                /\ writer.writes[n].sec = p
                                /\ writer.writes[n].k = k}) = 1
                          /\ \A w \in Writes :
                                (w.ctl = b /\ w.sec = p /\ w.k = k) =>
                                    w.content = MapGet(ValuesOf(p)[k], Positions[b].tag,
                                                       MISSING_STR)
                    /\ \A w \in Writes : w.sec # b
                    /\ \A j \in 1..Len(writer.out) : writer.prov[j].sec # b
                    /\ Positions[b].tag # Positions[p].tag =>
                          writer.out = MapOut(Positions, events, mappings,
                                              Without(repeat_mappings, Positions[b].tag))

\* a section was expanded for two sub-mappings, its template holds a
\* repeating section whose tag has values in the repeat mapping: its body
\* was replaced from the first sub-mapping and by "MISSING" for the second
C35_Witness ==
    /\ MapDone
    /\ \E p \in Sections_Dispatched :
          \E b \in 1..Len(Positions) :
              /\ SectionInTemplate(p, b)
              /\ Len(ValuesOf(p)) = 2
              /\ Positions[b].tag \in DOMAIN repeat_mappings
              /\ repeat_mappings[Positions[b].tag] # <<>>
              /\ \E w1, w2 \in Writes :
                    /\ w1.ctl = b /\ w1.sec = p /\ w1.k = 1 /\ w1.content = FP
                    /\ w2.ctl = b /\ w2.sec = p /\ w2.k = 2
                    /\ w2.content = MISSING_STR

=============================================================================
